---- MODULE Spec2Model ----
(***************************************************************************)
(* Telemetry simulation and alert reconciliation engine.                   *)
(*                                                                         *)
(* The specifications of this module share its variables:                  *)
(*   SpecRetry        retry_db_operation                                   *)
(*   SpecEvolve       MockInternalDataProvider, state evolution            *)
(*   SpecClock        MockInternalDataProvider, elapsed time               *)
(*   SpecDowntime     MockInternalDataProvider, downtime counter           *)
(*   SpecAlerts       DataAggregator alert checks and sync                 *)
(*   SpecCapacity     DataAggregator._check_capacity_alerts                *)
(*   SpecCatchUp      the alert ledger under the collection loop           *)
(*   SpecCollect      DataAggregator._collect_facility_metrics             *)
(*   SpecAggregator   DataAggregator start, stop and loop                  *)
(*   SpecShutdown     the same, up to the exit of the process              *)
(*   SpecFallback     DataService weather and traffic fallback             *)
(*   SpecDataService  the same, with get_facility_metrics                  *)
(*   SpecMonitor      SystemMonitor                                        *)
(* Each specification leaves the variables of the others at their initial  *)
(* values.                                                                 *)
(***************************************************************************)
EXTENDS Integers, Sequences, FiniteSets, TLC

VARIABLES
    retry,       \* the running call of retry_db_operation: its arguments, loop position and effects
    facilities,  \* facilities table: id -> row
    metrics,     \* facility_metrics table: facility id -> its latest row, if any
    alerts,      \* alerts table: sequence of rows, the row's id is its index; a row holds
                 \* its age (now - created_at) in ticks of 30 minutes, counted up to AlertWindow
    provider,    \* the MockInternalDataProvider and the facility it simulates: the
                 \* facility's type and its entry of facility_states, if any
    clock,       \* the wall clock against the provider: datetime.now() in hours, the
                 \* facility's entry of last_update_time, if any, and the time of the
                 \* last call that found the data unavailable
    last_call,   \* the last call of get_facility_metrics: its number, its result, the
                 \* hours elapsed, and the cooldown and status the update started from
    collect,     \* one run of DataAggregator._collect_facility_metrics: its position, the
                 \* batch it gathered, the calls it made and the rows of facility_metrics
                 \* it has persisted
    agg,         \* the DataAggregator: its running flag, its thread handle, the loop
                 \* threads it has started, where the main thread is in start() or
                 \* stop(), and counts of what has happened
    downtime,    \* one call of _update_facility_state seen from the downtime counter:
                 \* equipment_status and downtime_minutes before and after, and the
                 \* seconds elapsed
    fallback,    \* the requests made to get_weather_with_fallback and
                 \* get_traffic_with_fallback: their number, the last one, and the
                 \* warning and error lines printed
    monitor,     \* the SystemMonitor: its running flag, the position of its loop
                 \* thread, and what its last iteration printed
    hist         \* the last step: "check_ok" after a pass of _check_for_alerts that no
                 \* storage failure disturbed, "check_ok_again" after such a pass that
                 \* directly followed another, "sync_ok" after an undisturbed pass of
                 \* sync_alerts_with_current_data, "capacity_ok" or "capacity_raised"
                 \* after a call of _check_capacity_alerts alone, "other" after
                 \* anything else

vars == <<retry, provider, last_call, clock, facilities, metrics, alerts, hist, collect, agg, fallback, monitor, downtime>>

serviceVars == <<collect, agg, fallback, monitor, downtime>>

evolveVars == <<provider, last_call, clock>>

alertVars == <<facilities, metrics, alerts, hist>>

(***************************************************************************)
(* The values the variables of a specification keep while another          *)
(* specification runs.                                                     *)
(***************************************************************************)

RetryIdle ==
    retry = [pc |-> "idle", max_retries |-> 0, base_delay |-> 0, operation_func |-> <<>>,
             attempt |-> 0, calls |-> 0, sleeps |-> <<>>, outcome |-> "pending"]

NoState ==
    [has_state |-> FALSE, staffing_level |-> 0, productivity_rate |-> 0,
     equipment_status |-> "NULL", delivery_timeliness |-> 0, downtime_minutes |-> 0,
     equipment_change_cooldown |-> 0, staffing_trend |-> 0]

NoCall ==
    [n |-> 0, result |-> "none", hours |-> 0, cooldown_before |-> 0, status_before |-> "NULL"]

ClockIdle ==
    clock = [now |-> 0, has_update |-> FALSE, last_update_time |-> 0, skipped_at |-> -1]

EvolveIdle ==
    /\ provider = [facility_type |-> "station", state |-> NoState]
    /\ last_call = NoCall
    /\ ClockIdle

CollectIdle ==
    collect = [pc |-> "idle", outcomes |-> <<>>, metrics_batch |-> <<>>, attempt |-> 0, i |-> 0,
               batch_runs |-> 0, batch_ok |-> FALSE, inserts |-> <<>>, persisted |-> <<>>]

AggIdle ==
    agg = [running |-> FALSE, thread |-> 0, threads |-> <<>>, ctl |-> "off",
           calls |-> 0, starts |-> 0, stops |-> 0, syncs_begun |-> 0, syncs_done |-> 0,
           sync_errors |-> 0, joins |-> <<>>]

\* A provider returned None.
NoData == [ok |-> FALSE, provider |-> "none", value |-> "None"]

\* The provider was not called.
NotCalled == [ok |-> FALSE, provider |-> "none", value |-> "not called"]

NoRequest ==
    [result |-> NoData, primary |-> NotCalled, secondary |-> NotCalled,
     calls |-> <<>>, signal |-> "none"]

FallbackIdle ==
    fallback = [n |-> 0, kind |-> "none", last |-> NoRequest, warnings |-> 0, errors |-> 0]

MonitorIdle ==
    monitor = [running |-> FALSE, pc |-> "idle", iterations |-> 0, delay |-> 0,
               lines |-> 0, raised |-> 0]

DowntimeIdle ==
    downtime = [calls |-> 0, status_before |-> "NULL", status_after |-> "NULL",
                minutes_before |-> 0, seconds |-> 0, minutes_after |-> 0]

ServiceIdle == CollectIdle /\ AggIdle /\ FallbackIdle /\ MonitorIdle /\ DowntimeIdle

AlertsIdle ==
    /\ facilities = <<>>
    /\ metrics = <<>>
    /\ alerts = <<>>
    /\ hist = "other"

(***************************************************************************)
(* retry_db_operation (src/database/logic.py:22-37)                        *)
(***************************************************************************)

\* Largest max_retries argument explored.
MaxRetriesBound == 3

\* base_delay=0.1 s, in milliseconds.
BaseDelayMs == 100

\* Upper end of random.uniform(0, 0.1) s, in milliseconds.
JitterMaxMs == 100

\* What one invocation of operation_func does: return, raise
\* sqlite3.OperationalError("database is locked"), raise another
\* sqlite3.OperationalError, or raise any other exception.
OpOutcomes == {"ok", "locked", "operr", "exc"}

\* operation_func as the outcome of its 1st, 2nd, ... invocation.
OperationFuncs == [1..MaxRetriesBound -> OpOutcomes]

\* Values drawn for random.uniform(0, 0.1): both ends of the window.
JitterChoices == {0, JitterMaxMs}

RECURSIVE Pow2(_)
Pow2(n) == IF n = 0 THEN 1 ELSE 2 * Pow2(n - 1)

\* The base_delay arguments explored, in milliseconds: the default, half of
\* it and twice it.
BaseDelays == {BaseDelayMs \div 2, BaseDelayMs, 2 * BaseDelayMs}

\* delay = base_delay * (2 ** attempt) + random.uniform(0, 0.1)
Delay(base_delay, attempt, jitter) == base_delay * Pow2(attempt) + jitter

\* A bug that retries after the last attempt too.
ShouldRetryOffByOne(err, attempt, max_retries) ==
    err = "locked" /\ attempt < max_retries

\* A bug that never retries.
ShouldRetryNever(err, attempt, max_retries) == FALSE

\* A bug that retries on every sqlite3.OperationalError.
ShouldRetryAnyOperationalError(err, attempt, max_retries) ==
    err \in {"locked", "operr"} /\ attempt < max_retries - 1

\* except sqlite3.OperationalError as e:
\*     if "database is locked" in str(e).lower() and attempt < max_retries - 1:
ShouldRetry(err, attempt, max_retries) ==
    err = "locked" /\ attempt < max_retries - 1

RetryInit ==
    /\ AlertsIdle
    /\ EvolveIdle
    /\ ServiceIdle
    /\ \E m \in 0..MaxRetriesBound, b \in BaseDelays, f \in OperationFuncs :
        retry = [pc |-> "loop", max_retries |-> m, base_delay |-> b, operation_func |-> f,
                 attempt |-> 0, calls |-> 0, sleeps |-> <<>>,
                 outcome |-> "pending"]

\* One iteration of `for attempt in range(max_retries)`, where the operation returns.
RetryAttemptReturns ==
    /\ retry.pc = "loop"
    /\ retry.attempt < retry.max_retries
    /\ retry.operation_func[retry.attempt + 1] = "ok"
    /\ retry' = [retry EXCEPT !.calls = @ + 1, !.pc = "done", !.outcome = "returned"]
    /\ UNCHANGED <<alertVars, evolveVars, serviceVars>>

\* One iteration where the operation raises and the handler sleeps and continues.
RetryAttemptSleeps ==
    /\ retry.pc = "loop"
    /\ retry.attempt < retry.max_retries
    /\ LET err == retry.operation_func[retry.attempt + 1] IN
        /\ err # "ok"
        /\ ShouldRetry(err, retry.attempt, retry.max_retries)
        /\ \E jitter \in JitterChoices :
            retry' = [retry EXCEPT !.calls = @ + 1,
                                   !.sleeps = Append(@, Delay(retry.base_delay, retry.attempt, jitter)),
                                   !.attempt = @ + 1]
    /\ UNCHANGED <<alertVars, evolveVars, serviceVars>>

\* One iteration where the operation raises and the handler re-raises.
RetryAttemptRaises ==
    /\ retry.pc = "loop"
    /\ retry.attempt < retry.max_retries
    /\ LET err == retry.operation_func[retry.attempt + 1] IN
        /\ err # "ok"
        /\ ~ShouldRetry(err, retry.attempt, retry.max_retries)
        /\ retry' = [retry EXCEPT !.calls = @ + 1, !.pc = "done",
                                  !.outcome = "raised_" \o err]
    /\ UNCHANGED <<alertVars, evolveVars, serviceVars>>

\* range(max_retries) is exhausted: the function falls off its end and returns None.
RetryLoopExhausted ==
    /\ retry.pc = "loop"
    /\ retry.attempt >= retry.max_retries
    /\ retry' = [retry EXCEPT !.pc = "done", !.outcome = "returned_none"]
    /\ UNCHANGED <<alertVars, evolveVars, serviceVars>>

RetryNext ==
    \/ RetryAttemptReturns
    \/ RetryAttemptSleeps
    \/ RetryAttemptRaises
    \/ RetryLoopExhausted

SpecRetry == RetryInit /\ [][RetryNext]_vars

(***************************************************************************)
(* Properties of retry_db_operation                                        *)
(***************************************************************************)

\* The operation's first n invocations all raise "database is locked".
LockedUpTo(n) == \A i \in 1..n : retry.operation_func[i] = "locked"

\* C8: an operation that raises "database is locked" on every attempt is
\* invoked exactly max_retries times, and then (an attempt having been made)
\* that error propagates to the caller.
C8_AlwaysLockedExhaustsRetries ==
    (retry.pc = "done" /\ LockedUpTo(MaxRetriesBound)) =>
        /\ retry.calls = retry.max_retries
        /\ (retry.max_retries >= 1 => retry.outcome = "raised_locked")

C8_Witness ==
    /\ retry.pc = "done"
    /\ LockedUpTo(MaxRetriesBound)
    /\ retry.max_retries = 3
    /\ retry.calls = 3
    /\ retry.outcome = "raised_locked"

\* C9: an operation that raises "database is locked" on its first k-1
\* attempts and returns on attempt k <= max_retries makes retry_db_operation
\* return after exactly k invocations and exactly k-1 sleeps.
C9_SuccessOnAttemptK ==
    \A k \in 1..MaxRetriesBound :
        ( /\ retry.pc = "done"
          /\ k <= retry.max_retries
          /\ LockedUpTo(k - 1)
          /\ retry.operation_func[k] = "ok" ) =>
            /\ retry.outcome = "returned"
            /\ retry.calls = k
            /\ Len(retry.sleeps) = k - 1

C9_Witness ==
    /\ retry.pc = "done"
    /\ retry.max_retries = 3
    /\ retry.operation_func[1] = "locked"
    /\ retry.operation_func[2] = "ok"
    /\ retry.outcome = "returned"
    /\ retry.calls = 2
    /\ Len(retry.sleeps) = 1

\* C10: a failure other than "database is locked" (another OperationalError
\* or any other exception) propagates from the attempt that raised it, with
\* no retry and no sleep after it: raised on the first attempt, it leaves
\* exactly one invocation and no sleep.
C10_OtherFailurePropagatesAtOnce ==
    \A j \in 1..MaxRetriesBound :
        ( /\ retry.pc = "done"
          /\ j <= retry.max_retries
          /\ LockedUpTo(j - 1)
          /\ retry.operation_func[j] \in {"operr", "exc"} ) =>
            /\ retry.outcome = "raised_" \o retry.operation_func[j]
            /\ retry.calls = j
            /\ Len(retry.sleeps) = j - 1

C10_Witness ==
    /\ retry.pc = "done"
    /\ retry.max_retries = 3
    /\ retry.operation_func[1] = "operr"
    /\ retry.outcome = "raised_operr"
    /\ retry.calls = 1
    /\ retry.sleeps = <<>>

(***************************************************************************)
(* MockInternalDataProvider (src/services/external_apis.py:184-418)        *)
(*                                                                         *)
(* Units: hours and cooldowns in whole hours; staffing_level in persons,   *)
(* staffing_trend in thousandths of a person per hour; productivity_rate   *)
(* in ten-thousandths (10000 is 1.0); delivery_timeliness in hundredths of *)
(* a percent (9990 is 99.9); downtime_minutes in minutes.  Products are    *)
(* rounded down to the unit.  A random draw from an interval is a choice   *)
(* between its two ends.                                                   *)
(***************************************************************************)

\* Largest number of calls of get_facility_metrics explored.
MaxCalls == 3

\* Longest time between two calls explored, in hours.
MaxHours == 120

\* The hours a first call takes as elapsed (last_update defaults to an hour ago).
ColdStartHours == 1

\* The hours from which a call may re-draw the staffing trend.
ShiftHours == 8

\* The hours elapsed since the last update that a call may find.
HoursChoices == {0, ColdStartHours, ShiftHours, MaxHours}

FacilityTypes == {"hub", "station"}

Max(a, b) == IF a >= b THEN a ELSE b

Min(a, b) == IF a <= b THEN a ELSE b

\* A bug that forgets the upper bound.
ClampLowOnly(lo, hi, x) == Max(lo, x)

\* max(lo, min(hi, x))
Clamp(lo, hi, x) == Max(lo, Min(hi, x))

InitialStaffing(facility_type) ==
    IF facility_type = "hub" THEN {150, 250} ELSE {15, 25}

InitialProductivity(facility_type) ==
    IF facility_type = "hub" THEN {8500, 10500} ELSE {8800, 10200}

InitialTimeliness(facility_type) ==
    IF facility_type = "hub" THEN {9000, 9600} ELSE {9200, 9800}

\* random.choice(["Operational", "Operational", "Operational", "Maintenance"])
InitialEquipment == {"Operational", "Maintenance"}

\* A bug that lets a facility start with its equipment down.
initialize_facility_state_any_status(facility_type) ==
    { [has_state |-> TRUE, staffing_level |-> base_staffing,
       productivity_rate |-> base_productivity, equipment_status |-> equipment_status,
       delivery_timeliness |-> base_timeliness, downtime_minutes |-> 0,
       equipment_change_cooldown |-> 0, staffing_trend |-> 0] :
        base_staffing \in InitialStaffing(facility_type),
        base_productivity \in InitialProductivity(facility_type),
        base_timeliness \in InitialTimeliness(facility_type),
        equipment_status \in {"Operational", "Maintenance", "Down"} }

\* The states _initialize_facility_state can create.
initialize_facility_state(facility_type) ==
    { [has_state |-> TRUE, staffing_level |-> base_staffing,
       productivity_rate |-> base_productivity, equipment_status |-> equipment_status,
       delivery_timeliness |-> base_timeliness, downtime_minutes |-> 0,
       equipment_change_cooldown |-> 0, staffing_trend |-> 0] :
        base_staffing \in InitialStaffing(facility_type),
        base_productivity \in InitialProductivity(facility_type),
        base_timeliness \in InitialTimeliness(facility_type),
        equipment_status \in InitialEquipment }

\* A bug that lets the cooldown run below zero.
ReduceCooldownUnfloored(cooldown, hours_elapsed) == cooldown - hours_elapsed

\* max(0, state['equipment_change_cooldown'] - hours_elapsed)
ReduceCooldown(cooldown, hours_elapsed) == Max(0, cooldown - hours_elapsed)

\* A bug that attempts a transition whatever the cooldown.
CooldownOverAlways(cooldown) == TRUE

\* if state['equipment_change_cooldown'] <= 0
CooldownOver(cooldown) == cooldown <= 0

\* random.random() < per_mille / 1000 * hours_elapsed, random() being in [0, 1):
\* it can hold when the right side is positive, it must hold from 1 on.
CanFire(per_mille, hours_elapsed) == per_mille * hours_elapsed > 0

MustFire(per_mille, hours_elapsed) == per_mille * hours_elapsed >= 1000

\* The state after a transition to status, the cooldown drawn from cooldowns.
Transition(state, status, cooldowns) ==
    { [state EXCEPT !.equipment_status = status, !.equipment_change_cooldown = c] :
        c \in cooldowns }

\* A bug that lets equipment under maintenance break down.
update_equipment_status_maintenance_to_down(state, hours_elapsed) ==
    IF state.equipment_status = "Maintenance" /\ CanFire(150, hours_elapsed)
    THEN {state} \cup Transition(state, "Operational", {24, 72})
                 \cup Transition(state, "Down", {1, 6})
    ELSE {state}

\* The states _update_equipment_status can leave.
update_equipment_status(state, hours_elapsed) ==
    LET current_status == state.equipment_status
        Draw(per_mille, moved) ==
            (IF MustFire(per_mille, hours_elapsed) THEN {} ELSE {state})
            \cup (IF CanFire(per_mille, hours_elapsed) THEN moved ELSE {})
    IN  CASE current_status = "Operational" ->
                Draw(1, Transition(state, "Maintenance", {4, 12})
                        \cup Transition(state, "Down", {1, 6}))
          [] current_status = "Maintenance" ->
                Draw(150, Transition(state, "Operational", {24, 72}))
          [] current_status = "Down" ->
                Draw(250, Transition(state, "Operational", {12, 48})
                          \cup Transition(state, "Maintenance", {2, 8}))
          [] OTHER -> {state}

StaffingBounds(facility_type) ==
    IF facility_type = "hub" THEN [lo |-> 80, hi |-> 350] ELSE [lo |-> 8, hi |-> 35]

\* The ends of the interval trend_change is drawn from.
TrendChange(facility_type) ==
    IF facility_type = "hub" THEN {-2000, 2000} ELSE {-500, 500}

TrendBound(facility_type) ==
    IF facility_type = "hub" THEN 5000 ELSE 2000

\* state['staffing_trend'] *= 0.95
Decay(trend) ==
    IF trend >= 0 THEN (trend * 95) \div 100 ELSE 0 - ((0 - trend) * 95) \div 100

\* The states _update_staffing_level can leave: the trend read at entry moves
\* the staffing, also when the call re-draws the trend.
update_staffing_level(state, facility_type, hours_elapsed) ==
    LET current_staffing == state.staffing_level
        trend == state.staffing_trend
        bounds == StaffingBounds(facility_type)
        trends ==
            {trend} \cup
            (IF hours_elapsed >= ShiftHours
             THEN { Clamp(0 - TrendBound(facility_type), TrendBound(facility_type),
                          trend + trend_change) :
                        trend_change \in TrendChange(facility_type) }
             ELSE {})
        new_staffing ==
            Clamp(bounds.lo * 1000, bounds.hi * 1000,
                  current_staffing * 1000 + trend * hours_elapsed)
    IN  { IF trend # 0
          THEN [state EXCEPT !.staffing_level = new_staffing \div 1000,
                             !.staffing_trend = Decay(t)]
          ELSE [state EXCEPT !.staffing_trend = t] : t \in trends }

\* equipment_multiplier, in tenths.
EquipmentMultiplier(equipment_status) ==
    CASE equipment_status = "Operational" -> 10
      [] equipment_status = "Maintenance" -> 7
      [] equipment_status = "Down" -> 1
      [] equipment_status = "Reduced Capacity" -> 6
      [] OTHER -> 10

OptimalStaffing(facility_type) ==
    IF facility_type = "hub" THEN 200 ELSE 20

\* staffing_multiplier, in ten-thousandths.
StaffingMultiplier(facility_type, staffing_level) ==
    LET staffing_ratio == (staffing_level * 10000) \div OptimalStaffing(facility_type)
    IN  IF staffing_ratio < 7000 THEN 6000 + (staffing_ratio * 4) \div 10
        ELSE IF staffing_ratio > 13000 THEN 10000 - ((staffing_ratio - 13000) * 3) \div 10
        ELSE 9000 + staffing_ratio \div 10

TargetProductivity(state, facility_type) ==
    LET base_productivity == IF facility_type = "hub" THEN 9500 ELSE 9200
    IN  (base_productivity * EquipmentMultiplier(state.equipment_status)
            * StaffingMultiplier(facility_type, state.staffing_level)) \div 100000

\* new_productivity, before the bounds: change_rate is 0.1 * hours_elapsed.
NewProductivity(state, facility_type, hours_elapsed) ==
    LET productivity_gap == TargetProductivity(state, facility_type) - state.productivity_rate
    IN  state.productivity_rate + (productivity_gap * hours_elapsed) \div 10

update_productivity(state, facility_type, hours_elapsed) ==
    [state EXCEPT !.productivity_rate =
        Clamp(1000, 13000, NewProductivity(state, facility_type, hours_elapsed))]

\* equipment_factor, in hundredths.
EquipmentFactor(equipment_status) ==
    CASE equipment_status = "Operational" -> 100
      [] equipment_status = "Maintenance" -> 85
      [] equipment_status = "Down" -> 30
      [] equipment_status = "Reduced Capacity" -> 75
      [] OTHER -> 100

TargetTimeliness(state, facility_type) ==
    LET productivity_factor == Min(10000, state.productivity_rate)
        base_timeliness == IF facility_type = "hub" THEN 9600 ELSE 9400
    IN  (((base_timeliness * productivity_factor) \div 10000)
            * EquipmentFactor(state.equipment_status)) \div 100

\* new_timeliness, before the bounds: change_rate is 0.2 * hours_elapsed.
NewTimeliness(state, facility_type, hours_elapsed) ==
    LET timeliness_gap == TargetTimeliness(state, facility_type) - state.delivery_timeliness
    IN  state.delivery_timeliness + (timeliness_gap * 2 * hours_elapsed) \div 10

update_timeliness(state, facility_type, hours_elapsed) ==
    [state EXCEPT !.delivery_timeliness =
        Clamp(6000, 9990, NewTimeliness(state, facility_type, hours_elapsed))]

\* _update_downtime, the elapsed time in seconds: int(hours_elapsed * 60) is
\* the whole minutes elapsed, int(hours_elapsed * 30) the whole minutes in
\* half the time.
downtime_after(equipment_status, downtime_minutes, seconds_elapsed) ==
    IF equipment_status = "Down"
    THEN Min(480, downtime_minutes + seconds_elapsed \div 60)
    ELSE IF equipment_status = "Operational"
    THEN Max(0, downtime_minutes - seconds_elapsed \div 120)
    ELSE downtime_minutes

update_downtime(state, hours_elapsed) ==
    [state EXCEPT !.downtime_minutes =
        downtime_after(state.equipment_status, @, hours_elapsed * 3600)]

\* The equipment step of _update_facility_state: the cooldown is reduced,
\* and a transition attempted once it is over.
equipment_step(state, hours_elapsed) ==
    LET cooled == [state EXCEPT !.equipment_change_cooldown =
                        ReduceCooldown(@, hours_elapsed)]
    IN  IF CooldownOver(cooled.equipment_change_cooldown)
        THEN update_equipment_status(cooled, hours_elapsed)
        ELSE {cooled}

\* A bug that updates the downtime before the equipment status.
downtime_then_equipment(state, hours_elapsed, seconds) ==
    { [s EXCEPT !.downtime_minutes =
            downtime_after(state.equipment_status, @, hours_elapsed * 3600 + seconds)] :
        s \in equipment_step(state, hours_elapsed) }

\* _update_facility_state as far as the equipment and the downtime go, the
\* elapsed time being hours_elapsed hours and some seconds (too few to
\* change what the transition step may do): the equipment step, then
\* _update_downtime.
equipment_then_downtime(state, hours_elapsed, seconds) ==
    { [s EXCEPT !.downtime_minutes =
            downtime_after(s.equipment_status, @, hours_elapsed * 3600 + seconds)] :
        s \in equipment_step(state, hours_elapsed) }

\* The states _update_facility_state can leave.
update_facility_state(state, facility_type, hours_elapsed) ==
    LET equipped == equipment_step(state, hours_elapsed)
        staffed == UNION { update_staffing_level(s, facility_type, hours_elapsed) :
                            s \in equipped }
    IN  { update_downtime(
            update_timeliness(
                update_productivity(s, facility_type, hours_elapsed),
                facility_type, hours_elapsed),
            hours_elapsed) : s \in staffed }

EvolveInit ==
    /\ RetryIdle
    /\ AlertsIdle
    /\ ServiceIdle
    /\ \E facility_type \in FacilityTypes :
        provider = [facility_type |-> facility_type, state |-> NoState]
    /\ last_call = NoCall
    /\ ClockIdle

\* get_facility_metrics where the data is unavailable: it returns None before
\* it reads or writes any state.
GetFacilityMetricsUnavailable ==
    /\ last_call.n < MaxCalls
    /\ last_call' = [NoCall EXCEPT !.n = last_call.n + 1, !.result = "None"]
    /\ UNCHANGED <<provider, clock, retry, alertVars, serviceVars>>

\* What get_facility_metrics does from a state at hand, hours_since_update
\* after the last update.
Evolve(state, hours_since_update) ==
    \E new \in update_facility_state(state, provider.facility_type, hours_since_update) :
        /\ provider' = [provider EXCEPT !.state = new]
        /\ last_call' = [n |-> last_call.n + 1, result |-> "metrics",
                         hours |-> hours_since_update,
                         cooldown_before |-> state.equipment_change_cooldown,
                         status_before |-> state.equipment_status]

\* The first get_facility_metrics that finds data: it creates the state and
\* updates it over the default hour.
GetFacilityMetricsColdStart ==
    /\ last_call.n < MaxCalls
    /\ ~provider.state.has_state
    /\ \E state \in initialize_facility_state(provider.facility_type) :
        Evolve(state, ColdStartHours)
    /\ UNCHANGED <<clock, retry, alertVars, serviceVars>>

\* A later get_facility_metrics that finds data.
GetFacilityMetrics ==
    /\ last_call.n < MaxCalls
    /\ provider.state.has_state
    /\ \E hours_since_update \in HoursChoices :
        Evolve(provider.state, hours_since_update)
    /\ UNCHANGED <<clock, retry, alertVars, serviceVars>>

EvolveNext ==
    \/ GetFacilityMetricsUnavailable
    \/ GetFacilityMetricsColdStart
    \/ GetFacilityMetrics

SpecEvolve == EvolveInit /\ [][EvolveNext]_vars

(***************************************************************************)
(* Properties of the state evolution                                       *)
(***************************************************************************)

\* The last call updated the state and changed equipment_status.
StatusChanged ==
    /\ last_call.result = "metrics"
    /\ provider.state.equipment_status # last_call.status_before

\* C5: for a hub and for a station, after any sequence of calls from cold
\* start with non-negative elapsed hours, staffing_level is in [80,350] (hub)
\* or [8,35] (station), productivity_rate in [0.1,1.3], delivery_timeliness
\* in [60.0,99.9] and downtime_minutes in [0,480].
C5_BoundsHold ==
    LET state == provider.state
        bounds == StaffingBounds(provider.facility_type)
    IN  state.has_state =>
            /\ state.staffing_level \in bounds.lo..bounds.hi
            /\ state.productivity_rate \in 1000..13000
            /\ state.delivery_timeliness \in 6000..9990
            /\ state.downtime_minutes \in 0..480

C5_Witness ==
    /\ provider.state.has_state
    /\ provider.state.staffing_level = StaffingBounds(provider.facility_type).hi
    /\ provider.state.productivity_rate \in {1000, 13000}
    /\ provider.state.delivery_timeliness \in {6000, 9990}

\* C6 as stated: equipment_status changes in a call only if
\* equipment_change_cooldown was <= 0 before the call.
C6_ChangeOnlyIfCooldownOverBefore ==
    StatusChanged => last_call.cooldown_before <= 0

\* C6 as amended: equipment_status changes in a call only if
\* equipment_change_cooldown before the call was at most the hours elapsed,
\* that is <= 0 once the call has subtracted them.
C6_ChangeOnlyIfCooldownOverAfterSubtraction ==
    StatusChanged => last_call.cooldown_before <= last_call.hours

C6_Witness ==
    /\ StatusChanged
    /\ last_call.cooldown_before > 0
    /\ last_call.cooldown_before <= last_call.hours

\* C7: equipment_change_cooldown is never negative; a call that leaves the
\* status alone leaves the cooldown at max(0, cooldown - elapsed hours), and
\* a call that changes the status leaves it positive.
C7_CooldownNeverNegative ==
    LET state == provider.state
    IN  state.has_state =>
            /\ state.equipment_change_cooldown >= 0
            /\ last_call.result = "metrics" =>
                    IF state.equipment_status = last_call.status_before
                    THEN state.equipment_change_cooldown =
                            Max(0, last_call.cooldown_before - last_call.hours)
                    ELSE state.equipment_change_cooldown > 0

C7_Witness ==
    /\ last_call.result = "metrics"
    /\ ~StatusChanged
    /\ last_call.cooldown_before > 0
    /\ last_call.hours > last_call.cooldown_before
    /\ provider.state.equipment_change_cooldown = 0

(***************************************************************************)
(* The alert ledger and its reconciliation                                 *)
(* (src/services/background_services.py, src/database/logic.py,            *)
(*  src/database/sql_queries.py)                                           *)
(***************************************************************************)

\* Largest number of rows of the alerts table explored.
MaxAlerts == 2

\* check_existing_alert(..., hours=1): one hour, in ticks of 30 minutes.
AlertWindow == 2

\* productivity_rate < 0.7, in thousandths.
LowProductivityThreshold == 700

\* utilization > 0.9, in percent.
HighCapacityPercent == 90

Facilities == {1, 2}

\* ORDER BY f.name: the order the facilities are iterated in.
FacilityOrder == <<1, 2>>

AlertTypes == {"low_productivity", "equipment_down", "equipment_maintenance", "high_capacity"}

\* Rows of the facilities table (max_capacity INTEGER DEFAULT 1000): for
\* facility 1 a row with max_capacity 0, for facility 2 a row above 90% load
\* or a row at exactly 90% load.
FacilityRows(f) ==
    IF f = 1
    THEN { [id |-> f, facility_type |-> "station", status |-> "active",
            max_capacity |-> 0, current_load |-> 50] }
    ELSE { [id |-> f, facility_type |-> "hub", status |-> "active",
            max_capacity |-> 1000, current_load |-> 950],
           [id |-> f, facility_type |-> "hub", status |-> "active",
            max_capacity |-> 1000, current_load |-> 900] }

\* LEFT JOIN facility_metrics with no row: the metric columns are NULL.
NoMetrics == [has_row |-> FALSE, productivity_rate |-> 0, equipment_status |-> "NULL"]

\* Samples the metrics sink receives: productivity_rate in thousandths
\* (below 0.70 and at 0.70) and the equipment statuses the provider reports.
\* Facility 1 is the bystander of the model: once it reports, its equipment
\* is Down.
MetricsSamples(f) ==
    IF f = 1
    THEN { [has_row |-> TRUE, productivity_rate |-> 700, equipment_status |-> "Down"] }
    ELSE [has_row : {TRUE}, productivity_rate : {650, 700},
          equipment_status : {"Operational", "Maintenance", "Down"}]

\* A storage failure injected into one pass: the database call that raises,
\* named by the check it belongs to, the facility it is for (0 for the
\* facility listing) and the call.
NoFailure == [part |-> "none", facility |-> 0, call |-> "none"]

CheckFailurePlans ==
    {NoFailure}
    \cup [part : {"productivity", "equipment", "capacity"}, facility : {0}, call : {"list"}]
    \cup [part : {"productivity", "equipment", "capacity"}, facility : Facilities,
          call : {"exists", "insert"}]
    \cup [part : {"equipment"}, facility : Facilities, call : {"resolve"}]

SyncFailurePlans ==
    {NoFailure}
    \cup [part : {"sync"}, facility : {0}, call : {"list"}]
    \cup [part : {"productivity", "equipment"}, facility : Facilities, call : {"exists", "insert"}]
    \cup [part : {"equipment"}, facility : Facilities, call : {"resolve"}]

Fails(plan, part, f, call) == plan = [part |-> part, facility |-> f, call |-> call]

\* FacilityDB.get_all_active_facilities: WHERE f.status = 'active' ORDER BY f.name
get_all_active_facilities ==
    SelectSeq(FacilityOrder, LAMBDA f : facilities[f].status = "active")

\* A bug that drops `resolved = FALSE` from CHECK_EXISTING_ALERT.
check_existing_alert_any_row(ledger, f, type) ==
    \E i \in 1..Len(ledger) :
        /\ ledger[i].facility_id = f
        /\ ledger[i].alert_type = type
        /\ ledger[i].age < AlertWindow

\* A bug that makes the existence check answer "no alert" always.
check_existing_alert_never(ledger, f, type) == FALSE

\* AlertsDB.check_existing_alert with CHECK_EXISTING_ALERT:
\* WHERE facility_id = ? AND alert_type = ? AND resolved = FALSE
\*   AND created_at > datetime('now', '-1 hour')
\* created_at > now - 1 hour is age = now - created_at < 1 hour.
check_existing_alert(ledger, f, type) ==
    \E i \in 1..Len(ledger) :
        /\ ledger[i].facility_id = f
        /\ ledger[i].alert_type = type
        /\ ~ledger[i].resolved
        /\ ledger[i].age < AlertWindow

\* AlertsDB.insert_alert with INSERT_ALERT: resolved defaults to FALSE and
\* created_at to CURRENT_TIMESTAMP.
insert_alert(ledger, f, type, severity) ==
    Append(ledger, [facility_id |-> f, alert_type |-> type, severity |-> severity,
                    resolved |-> FALSE, age |-> 0])

\* AlertsDB.resolve_alert with RESOLVE_ALERT: UPDATE alerts SET resolved = TRUE WHERE id = ?
resolve_alert(ledger, alert_id) ==
    [i \in 1..Len(ledger) |->
        IF i = alert_id THEN [ledger[i] EXCEPT !.resolved = TRUE] ELSE ledger[i]]

\* A bug that resolves equipment_maintenance alerts only.
resolve_equipment_rows_maintenance_only(ledger, f) ==
    [i \in 1..Len(ledger) |->
        IF /\ ledger[i].facility_id = f
           /\ ledger[i].alert_type \in {"equipment_maintenance"}
           /\ ~ledger[i].resolved
        THEN [ledger[i] EXCEPT !.resolved = TRUE]
        ELSE ledger[i]]

\* A bug that resolves equipment_down alerts only.
resolve_equipment_rows_down_only(ledger, f) ==
    [i \in 1..Len(ledger) |->
        IF /\ ledger[i].facility_id = f
           /\ ledger[i].alert_type \in {"equipment_down"}
           /\ ~ledger[i].resolved
        THEN [ledger[i] EXCEPT !.resolved = TRUE]
        ELSE ledger[i]]

\* A bug that drops the alert_type IN (...) clause from the UPDATE: every
\* unresolved alert of the facility is resolved.
resolve_equipment_rows_any_type(ledger, f) ==
    [i \in 1..Len(ledger) |->
        IF /\ ledger[i].facility_id = f
           /\ ~ledger[i].resolved
        THEN [ledger[i] EXCEPT !.resolved = TRUE]
        ELSE ledger[i]]

\* The UPDATE of _resolve_equipment_alerts_for_facility:
\* SET resolved = TRUE WHERE facility_id = ?
\*   AND alert_type IN ('equipment_down', 'equipment_maintenance') AND resolved = FALSE
resolve_equipment_rows(ledger, f) ==
    [i \in 1..Len(ledger) |->
        IF /\ ledger[i].facility_id = f
           /\ ledger[i].alert_type \in {"equipment_down", "equipment_maintenance"}
           /\ ~ledger[i].resolved
        THEN [ledger[i] EXCEPT !.resolved = TRUE]
        ELSE ledger[i]]

\* What a check hands on: the ledger it leaves and whether it raised.
Went(ledger) == [ledger |-> ledger, raised |-> FALSE]
Raised(ledger) == [ledger |-> ledger, raised |-> TRUE]

\* if not AlertsDB.check_existing_alert(id, type): AlertsDB.insert_alert(id, type, message, severity)
\* Either call may raise; the insert is made through retry_db_operation and
\* raises once its retries are used up or on any other error.
EnsureAlert(ledger, plan, part, f, type, severity) ==
    IF Fails(plan, part, f, "exists") THEN Raised(ledger)
    ELSE IF check_existing_alert(ledger, f, type) THEN Went(ledger)
    ELSE IF Fails(plan, part, f, "insert") THEN Raised(ledger)
    ELSE Went(insert_alert(ledger, f, type, severity))

\* _resolve_equipment_alerts_for_facility: its own try/except swallows a
\* storage error, which leaves the rows as they were.
resolve_equipment_alerts_for_facility(ledger, plan, f) ==
    IF Fails(plan, "equipment", f, "resolve") THEN ledger ELSE resolve_equipment_rows(ledger, f)

\* A bug that reads a NULL productivity_rate as 0:
\* (facility['productivity_rate'] or 0) < 0.7
LowProductivityNullAsZero(f) ==
    metrics[f].productivity_rate < LowProductivityThreshold

\* A bug that opens the low_productivity alert at exactly 70%.
LowProductivityInclusive(f) ==
    metrics[f].has_row /\ metrics[f].productivity_rate <= LowProductivityThreshold

\* facility['productivity_rate'] is not None and facility['productivity_rate'] < 0.7
LowProductivity(f) ==
    metrics[f].has_row /\ metrics[f].productivity_rate < LowProductivityThreshold

\* facility['max_capacity'] > 0 and current_load / max_capacity > 0.9
HighCapacity(f) ==
    /\ facilities[f].max_capacity > 0
    /\ facilities[f].current_load * 100 > HighCapacityPercent * facilities[f].max_capacity

\* The body of the loop of _check_productivity_alerts for one facility.
ProductivityStep(ledger, plan, f) ==
    IF LowProductivity(f)
    THEN EnsureAlert(ledger, plan, "productivity", f, "low_productivity", "warning")
    ELSE Went(ledger)

\* The body of the loop of _check_equipment_alerts for one facility.
EquipmentStep(ledger, plan, f) ==
    LET equipment_status == metrics[f].equipment_status IN
    IF equipment_status = "Down"
    THEN EnsureAlert(ledger, plan, "equipment", f, "equipment_down", "critical")
    ELSE IF equipment_status = "Maintenance"
    THEN EnsureAlert(ledger, plan, "equipment", f, "equipment_maintenance", "warning")
    ELSE IF equipment_status = "Operational"
    THEN Went(resolve_equipment_alerts_for_facility(ledger, plan, f))
    ELSE Went(ledger)

\* A bug that divides before looking at max_capacity: ZeroDivisionError for
\* a facility with max_capacity 0.
CapacityStepUnguarded(ledger, plan, f) ==
    IF facilities[f].max_capacity = 0 THEN Raised(ledger)
    ELSE IF HighCapacity(f)
    THEN EnsureAlert(ledger, plan, "capacity", f, "high_capacity", "warning")
    ELSE Went(ledger)

\* The body of the loop of _check_capacity_alerts for one facility.
CapacityStep(ledger, plan, f) ==
    IF HighCapacity(f)
    THEN EnsureAlert(ledger, plan, "capacity", f, "high_capacity", "warning")
    ELSE Went(ledger)

\* The body of the loop of sync_alerts_with_current_data for one facility:
\* the equipment branch, then the productivity branch.
SyncStep(ledger, plan, f) ==
    LET e == EquipmentStep(ledger, plan, f) IN
    IF e.raised THEN e ELSE ProductivityStep(e.ledger, plan, f)

\* for facility in facilities: an exception leaves the loop.
RECURSIVE ForEachFacility(_, _, _, _)
ForEachFacility(part, ledger, plan, order) ==
    IF order = <<>> THEN Went(ledger)
    ELSE LET f == Head(order)
             r == CASE part = "productivity" -> ProductivityStep(ledger, plan, f)
                    [] part = "equipment" -> EquipmentStep(ledger, plan, f)
                    [] part = "capacity" -> CapacityStep(ledger, plan, f)
                    [] part = "sync" -> SyncStep(ledger, plan, f)
         IN IF r.raised THEN r ELSE ForEachFacility(part, r.ledger, plan, Tail(order))

\* _check_productivity_alerts, _check_equipment_alerts, _check_capacity_alerts:
\* facilities = FacilityDB.get_all_active_facilities(), then the loop.
CheckPart(part, ledger, plan) ==
    IF Fails(plan, part, 0, "list") THEN Raised(ledger)
    ELSE ForEachFacility(part, ledger, plan, get_all_active_facilities)

\* _check_for_alerts: the three checks inside one try; an exception in one
\* check skips the checks after it.
check_for_alerts(ledger, plan) ==
    LET p == CheckPart("productivity", ledger, plan) IN
    IF p.raised THEN p
    ELSE LET e == CheckPart("equipment", p.ledger, plan) IN
         IF e.raised THEN e
         ELSE CheckPart("capacity", e.ledger, plan)

\* sync_alerts_with_current_data: one loop inside one try.
sync_alerts_with_current_data(ledger, plan) == CheckPart("sync", ledger, plan)

\* The values of hist after an undisturbed pass of _check_for_alerts.
CheckOk == {"check_ok", "check_ok_again"}

AlertsInit ==
    /\ RetryIdle
    /\ EvolveIdle
    /\ ServiceIdle
    /\ facilities \in {r \in [Facilities -> UNION {FacilityRows(f) : f \in Facilities}] :
                          \A f \in Facilities : r[f] \in FacilityRows(f)}
    /\ metrics = [f \in Facilities |-> NoMetrics]
    /\ alerts = <<>>
    /\ hist = "other"

\* min(age + 1, AlertWindow): ages at or beyond the window are not told apart.
Older(age) == IF age < AlertWindow THEN age + 1 ELSE AlertWindow

\* Time passes: one tick of 30 minutes; every row is one tick older.
AdvanceClock ==
    /\ alerts' = [i \in 1..Len(alerts) |-> [alerts[i] EXCEPT !.age = Older(@)]]
    /\ hist' = "other"
    /\ UNCHANGED <<retry, evolveVars, serviceVars, facilities, metrics>>

\* MetricsDB.insert_metrics / _batch_insert_metrics: a new facility_metrics
\* row, which becomes the facility's latest (ORDER BY timestamp DESC LIMIT 1).
InsertMetrics ==
    /\ \E f \in Facilities : \E sample \in MetricsSamples(f) :
        metrics' = [metrics EXCEPT ![f] = sample]
    /\ hist' = "other"
    /\ UNCHANGED <<retry, evolveVars, serviceVars, facilities, alerts>>

\* One call of _check_for_alerts by the collection loop.
CheckForAlerts ==
    /\ \E plan \in CheckFailurePlans :
        \E r \in {check_for_alerts(alerts, plan)} :
        /\ Len(r.ledger) <= MaxAlerts
        /\ alerts' = r.ledger
        /\ hist' = IF r # check_for_alerts(alerts, NoFailure) THEN "other"
                   ELSE IF hist \in CheckOk THEN "check_ok_again"
                   ELSE "check_ok"
    /\ UNCHANGED <<retry, evolveVars, serviceVars, facilities, metrics>>

\* One call of sync_alerts_with_current_data (by start()).
SyncAlerts ==
    /\ \E plan \in SyncFailurePlans :
        \E r \in {sync_alerts_with_current_data(alerts, plan)} :
        /\ Len(r.ledger) <= MaxAlerts
        /\ alerts' = r.ledger
        /\ hist' = IF r = sync_alerts_with_current_data(alerts, NoFailure)
                   THEN "sync_ok" ELSE "other"
    /\ UNCHANGED <<retry, evolveVars, serviceVars, facilities, metrics>>

\* POST /resolve_alert/<alert_id>: AlertsDB.resolve_alert.
ResolveAlert ==
    /\ \E alert_id \in 1..Len(alerts) :
        alerts' = resolve_alert(alerts, alert_id)
    /\ hist' = "other"
    /\ UNCHANGED <<retry, evolveVars, serviceVars, facilities, metrics>>

AlertsNext ==
    \/ AdvanceClock
    \/ InsertMetrics
    \/ CheckForAlerts
    \/ SyncAlerts
    \/ ResolveAlert

SpecAlerts == AlertsInit /\ [][AlertsNext]_vars

(***************************************************************************)
(* Properties of the alert ledger                                          *)
(***************************************************************************)

EquipmentAlertTypes == {"equipment_down", "equipment_maintenance"}

\* The triggering predicate of an alert type, on the rows a pass reads.
Triggered(f, type) ==
    CASE type = "low_productivity" -> LowProductivity(f)
      [] type = "equipment_down" -> metrics[f].equipment_status = "Down"
      [] type = "equipment_maintenance" -> metrics[f].equipment_status = "Maintenance"
      [] type = "high_capacity" -> HighCapacity(f)

\* The ids of the unresolved rows of one (facility_id, alert_type) pair.
Unresolved(ledger, f, type) ==
    {i \in 1..Len(ledger) :
        /\ ledger[i].facility_id = f
        /\ ledger[i].alert_type = type
        /\ ~ledger[i].resolved}

\* The step is a pass of _check_for_alerts, disturbed or not.
IsCheckStep ==
    /\ UNCHANGED <<facilities, metrics>>
    /\ \E plan \in CheckFailurePlans : alerts' = check_for_alerts(alerts, plan).ledger

\* C1: in every reachable state there is at most one unresolved alert per
\* (facility_id, alert_type) pair.
C1_AtMostOneUnresolvedPerPair ==
    \A f \in Facilities, type \in AlertTypes :
        Cardinality(Unresolved(alerts, f, type)) <= 1

\* C2: a pass of _check_for_alerts that directly follows a pass that ran to
\* its end (no storage failure), with the facility state unchanged and no
\* resolve in between, opens no alert: the ledger keeps its length, whatever
\* the facility and the alert type.
C2_SecondRunOpensNothing ==
    [][ (hist \in CheckOk /\ IsCheckStep) => Len(alerts') = Len(alerts) ]_vars

C2_Witness ==
    /\ hist = "check_ok_again"
    /\ LowProductivity(2)
    /\ metrics[2].equipment_status = "Down"
    /\ Cardinality(Unresolved(alerts, 2, "low_productivity")) = 1
    /\ Cardinality(Unresolved(alerts, 2, "equipment_down")) = 1
    /\ Len(alerts) = 2

\* C3: a facility with an unresolved equipment_down alert whose latest
\* equipment_status is Operational has that alert resolved by the next pass
\* that meets no storage failure, and the pass opens no equipment_down or
\* equipment_maintenance alert for the facility.
C3_DownAlertResolvedWhenOperational ==
    [][ hist' \in CheckOk =>
          \A f \in Facilities :
              ( /\ metrics[f].equipment_status = "Operational"
                /\ Unresolved(alerts, f, "equipment_down") # {} ) =>
                  /\ \A i \in Unresolved(alerts, f, "equipment_down") : alerts'[i].resolved
                  /\ \A j \in (Len(alerts) + 1)..Len(alerts') :
                        ~( /\ alerts'[j].facility_id = f
                           /\ alerts'[j].alert_type \in EquipmentAlertTypes ) ]_vars

C3_Witness ==
    /\ hist = "check_ok"
    /\ metrics[2].equipment_status = "Operational"
    /\ \E i \in 1..Len(alerts) :
        /\ alerts[i].facility_id = 2
        /\ alerts[i].alert_type = "equipment_down"
        /\ alerts[i].resolved
    /\ \A type \in EquipmentAlertTypes : Unresolved(alerts, 2, type) = {}

TypesOfPart(part) ==
    CASE part = "productivity" -> {"low_productivity"}
      [] part = "equipment" -> EquipmentAlertTypes
      [] part = "capacity" -> {"high_capacity"}
      [] OTHER -> {}

\* C17: a pass of _check_for_alerts in which the existence check or the
\* insert for one facility and one check raises leaves, for every other
\* facility and for every other alert type, the unresolved alerts that the
\* pass without the failure leaves.
C17_FailureForOneFacilityIsIsolated ==
    [][ \A plan \in CheckFailurePlans :
            ( /\ plan.call \in {"exists", "insert"}
              /\ UNCHANGED <<facilities, metrics>>
              /\ alerts' = check_for_alerts(alerts, plan).ledger ) =>
                \A g \in Facilities, type \in AlertTypes :
                    (g # plan.facility \/ type \notin TypesOfPart(plan.part)) =>
                        Cardinality(Unresolved(alerts', g, type)) =
                        Cardinality(Unresolved(check_for_alerts(alerts, NoFailure).ledger,
                                               g, type)) ]_vars

(***************************************************************************)
(* DataAggregator._collect_facility_metrics and _batch_insert_metrics      *)
(* (src/services/background_services.py:44-86)                             *)
(***************************************************************************)

\* Largest number of active facilities one run collects from.
MaxBatch == 3

\* retry_db_operation(_batch_insert): max_retries defaults to 3.
DefaultMaxRetries == 3

\* What DataService.get_facility_metrics does for one facility: it returns a
\* sample, returns None, or raises.
ProviderOutcomes == {"sample", "None", "raise"}

\* The errors a statement or the commit of a transaction can raise.
StorageErrors == {"locked", "operr", "exc"}

\* A bug that lets an exception of get_facility_metrics leave the loop.
RECURSIVE GatherBatchUntilRaise(_, _)
GatherBatchUntilRaise(outcome, n) ==
    IF n = 0 THEN <<>>
    ELSE IF \E f \in 1..(n - 1) : outcome[f] = "raise" THEN GatherBatchUntilRaise(outcome, n - 1)
    ELSE IF outcome[n] = "sample" THEN Append(GatherBatchUntilRaise(outcome, n - 1), n)
    ELSE GatherBatchUntilRaise(outcome, n - 1)

\* metrics_batch: the facilities, in the order listed, whose call returned a sample.
RECURSIVE GatherBatch(_, _)
GatherBatch(outcome, n) ==
    IF n = 0 THEN <<>>
    ELSE IF outcome[n] = "sample" THEN Append(GatherBatch(outcome, n - 1), n)
    ELSE GatherBatch(outcome, n - 1)

\* A bug that commits each statement on its own: the rows before the failing
\* statement stay.
batch_insert_autocommit(persisted, metrics_list, fail_at) ==
    IF fail_at = 0 THEN persisted \o metrics_list
    ELSE persisted \o SubSeq(metrics_list, 1, Min(fail_at - 1, Len(metrics_list)))

\* _batch_insert: the rows of facility_metrics after one transaction that
\* executes an INSERT per sample and commits; fail_at is the statement that
\* raises (Len + 1 for the commit, 0 for none).  The connection is closed in
\* the finally clause, which drops what was not committed.
batch_insert(persisted, metrics_list, fail_at) ==
    IF fail_at = 0 THEN persisted \o metrics_list ELSE persisted

\* A bug that swallows the batch error without the individual inserts.
OnBatchErrorGiveUp(c) == [c EXCEPT !.pc = "done"]

\* except Exception around _batch_insert_metrics: fall back to individual inserts.
OnBatchError(c) == [c EXCEPT !.pc = "fallback", !.i = 1]

CollectInit ==
    /\ RetryIdle
    /\ EvolveIdle
    /\ AlertsIdle
    /\ AggIdle
    /\ FallbackIdle
    /\ MonitorIdle
    /\ DowntimeIdle
    /\ collect = [pc |-> "start", outcomes |-> <<>>, metrics_batch |-> <<>>,
                  attempt |-> 0, i |-> 0,
                  batch_runs |-> 0, batch_ok |-> FALSE, inserts |-> <<>>,
                  persisted |-> <<>>]

\* facilities = FacilityDB.get_all_active_facilities() raises: the exception
\* leaves _collect_facility_metrics.
CollectListingRaises ==
    /\ collect.pc = "start"
    /\ collect' = [collect EXCEPT !.pc = "raised"]
    /\ UNCHANGED <<retry, evolveVars, alertVars, agg, fallback, monitor, downtime>>

\* The loop that gathers metrics_batch; an empty batch ends the run.
CollectGather ==
    /\ collect.pc = "start"
    /\ \E n \in 0..MaxBatch : \E outcome \in [1..n -> ProviderOutcomes] :
        LET metrics_batch == GatherBatch(outcome, n)
        IN  collect' = [collect EXCEPT !.outcomes = outcome,
                           !.metrics_batch = metrics_batch,
                           !.pc = IF metrics_batch = <<>> THEN "done" ELSE "batch"]
    /\ UNCHANGED <<retry, evolveVars, alertVars, agg, fallback, monitor, downtime>>

\* One attempt of retry_db_operation(_batch_insert) that commits.
BatchInsertCommits ==
    /\ collect.pc = "batch"
    /\ collect.attempt < DefaultMaxRetries
    /\ collect' = [collect EXCEPT
            !.persisted = batch_insert(@, collect.metrics_batch, 0),
            !.batch_runs = @ + 1, !.batch_ok = TRUE, !.pc = "done"]
    /\ UNCHANGED <<retry, evolveVars, alertVars, agg, fallback, monitor, downtime>>

\* One attempt of retry_db_operation(_batch_insert) that raises: it is made
\* again while ShouldRetry holds, else the error reaches the caller.
BatchInsertRaises ==
    /\ collect.pc = "batch"
    /\ collect.attempt < DefaultMaxRetries
    /\ \E fail_at \in 1..(Len(collect.metrics_batch) + 1), err \in StorageErrors :
        LET ran == [collect EXCEPT
                        !.persisted = batch_insert(@, collect.metrics_batch, fail_at),
                        !.batch_runs = @ + 1]
        IN  collect' = IF ShouldRetry(err, collect.attempt, DefaultMaxRetries)
                       THEN [ran EXCEPT !.attempt = @ + 1]
                       ELSE OnBatchError(ran)
    /\ UNCHANGED <<retry, evolveVars, alertVars, agg, fallback, monitor, downtime>>

\* One turn of the fallback loop: MetricsDB.insert_metrics(metrics) in its
\* own try; ok tells whether it returned or raised (after its own retries).
FallbackInsert ==
    /\ collect.pc = "fallback"
    /\ collect.i <= Len(collect.metrics_batch)
    /\ \E ok \in BOOLEAN :
        LET sample == collect.metrics_batch[collect.i]
        IN  collect' = [collect EXCEPT
                !.inserts = Append(@, sample),
                !.persisted = IF ok THEN Append(@, sample) ELSE @,
                !.i = @ + 1,
                !.pc = IF collect.i = Len(collect.metrics_batch) THEN "done" ELSE "fallback"]
    /\ UNCHANGED <<retry, evolveVars, alertVars, agg, fallback, monitor, downtime>>

CollectNext ==
    \/ CollectListingRaises
    \/ CollectGather
    \/ BatchInsertCommits
    \/ BatchInsertRaises
    \/ FallbackInsert

SpecCollect == CollectInit /\ [][CollectNext]_vars

(***************************************************************************)
(* Properties of the metrics collection                                    *)
(***************************************************************************)

\* C11: when the run of _collect_facility_metrics is over, the individual
\* insert_metrics calls are the N samples of the batch in batch order if the
\* batch insert failed, and none if it succeeded; until then they are the
\* first samples of the batch, in order, and none before the batch has failed.
C11_FallbackInsertsEachSampleOnce ==
    /\ collect.pc = "done" =>
            collect.inserts = IF collect.batch_ok THEN <<>> ELSE collect.metrics_batch
    /\ collect.pc = "fallback" =>
            /\ ~collect.batch_ok
            /\ collect.inserts = SubSeq(collect.metrics_batch, 1, collect.i - 1)
    /\ collect.pc \in {"start", "batch", "raised"} => collect.inserts = <<>>

C11_Witness ==
    /\ collect.pc = "done"
    /\ ~collect.batch_ok
    /\ Len(collect.metrics_batch) = MaxBatch
    /\ collect.inserts = collect.metrics_batch
    /\ collect.batch_runs = DefaultMaxRetries
    /\ Len(collect.persisted) = 1

\* C12: as long as no individual insert has been made, the rows persisted
\* are all the samples of the batch if a batch transaction committed and
\* none otherwise, whatever statement or commit failed and however often the
\* transaction was run.
C12_BatchIsAllOrNothing ==
    collect.inserts = <<>> =>
        collect.persisted = IF collect.batch_ok THEN collect.metrics_batch ELSE <<>>

C12_Witness ==
    /\ collect.pc = "fallback"
    /\ collect.inserts = <<>>
    /\ Len(collect.metrics_batch) >= 2
    /\ collect.batch_runs >= 1
    /\ collect.persisted = <<>>

(***************************************************************************)
(* Properties of the metrics collection: one item's failure                *)
(***************************************************************************)

\* The facilities, in the order listed, whose call returned a sample.
Sampled(outcomes) ==
    SelectSeq([f \in 1..Len(outcomes) |-> f], LAMBDA f : outcomes[f] = "sample")

\* C30: the batch gathered holds every facility whose call returned a
\* sample, in order, whichever other calls raised or returned None; and a
\* turn of the fallback loop is followed by the turn for the next sample of
\* the batch, up to the last, whether its insert returned or raised.
C30_OneFailureDoesNotStopTheRest ==
    [][ /\ (collect.pc = "start" /\ collect'.pc \in {"batch", "done"}) =>
              collect'.metrics_batch = Sampled(collect'.outcomes)
        /\ (collect.pc = "fallback" /\ collect'.pc # "fallback") =>
              /\ collect'.pc = "done"
              /\ collect'.inserts = collect.metrics_batch ]_vars

C30_Witness ==
    /\ collect.pc = "done"
    /\ collect.outcomes = <<"raise", "sample", "sample">>
    /\ collect.metrics_batch = <<2, 3>>
    /\ collect.inserts = <<2, 3>>
    /\ collect.persisted = <<3>>

(***************************************************************************)
(* DataAggregator.start, stop and _collect_data_loop                       *)
(* (src/services/background_services.py:10-42)                             *)
(*                                                                         *)
(* start() and stop() are called one after the other by the main thread    *)
(* (src/main.py); the loop threads run beside it.                          *)
(***************************************************************************)

\* Largest number of calls of start() and stop() explored.
MaxLifecycleCalls == 4

\* Largest number of cycles one loop thread begins.
MaxCycles == 2

\* self.collection_interval, in seconds.
CollectionInterval == 600

\* time.sleep(10) after an exception in a cycle.
RetryDelay == 10

\* What sync_alerts_with_current_data can do to its caller: return after a
\* clean pass, or return after its except clause swallowed an exception.
SyncOutcomes == {"ok", "swallowed"}

\* A loop thread that was just started.
NewThread == [pc |-> "top", cycles |-> 0, errors |-> 0, delay |-> 0]

\* A bug that drops `if not self.running`.
start_enter_unguarded(a) ==
    [a EXCEPT !.running = TRUE, !.ctl = "sync", !.syncs_begun = @ + 1]

\* start() up to the call of sync_alerts_with_current_data.
start_enter(a) ==
    IF ~a.running
    THEN [a EXCEPT !.running = TRUE, !.ctl = "sync", !.syncs_begun = @ + 1]
    ELSE a

\* A bug that launches the loop only after a clean sync pass.
start_finish_only_if_clean(a, outcome) ==
    IF outcome = "ok"
    THEN [a EXCEPT !.ctl = "idle", !.syncs_done = @ + 1,
                   !.threads = Append(@, NewThread), !.thread = Len(a.threads) + 1]
    ELSE [a EXCEPT !.ctl = "idle", !.syncs_done = @ + 1, !.sync_errors = @ + 1]

\* start() from the return of sync_alerts_with_current_data: the thread is
\* created and started.
start_finish(a, outcome) ==
    [a EXCEPT !.ctl = "idle", !.syncs_done = @ + 1,
              !.sync_errors = IF outcome = "swallowed" THEN @ + 1 ELSE @,
              !.threads = Append(@, NewThread), !.thread = Len(a.threads) + 1]

\* stop() up to the join: self.running = False; if self.thread: join.
stop_enter(a) ==
    [a EXCEPT !.running = FALSE, !.ctl = IF a.thread # 0 THEN "join" ELSE "idle"]

\* A bug that joins without a timeout.
join_without_timeout(pc) == IF pc = "exited" THEN "joined" ELSE "blocked"

\* self.thread.join(timeout=5): it returns when the thread has ended or when
\* 5 seconds have passed.
join(pc) == IF pc = "exited" THEN "joined" ELSE "timed_out"

\* A bug that lets an exception end the loop.
on_cycle_error_exit(th) == [th EXCEPT !.pc = "exited", !.errors = @ + 1]

\* except Exception in _collect_data_loop: print, time.sleep(10).
on_cycle_error(th) == [th EXCEPT !.pc = "sleeping", !.delay = RetryDelay, !.errors = @ + 1]

\* DataAggregator.__init__: running = False, thread = None.
AggInit ==
    /\ RetryIdle
    /\ EvolveIdle
    /\ AlertsIdle
    /\ CollectIdle
    /\ FallbackIdle
    /\ MonitorIdle
    /\ DowntimeIdle
    /\ agg = [running |-> FALSE, thread |-> 0, threads |-> <<>>, ctl |-> "idle",
              calls |-> 0, starts |-> 0, stops |-> 0, syncs_begun |-> 0, syncs_done |-> 0,
              sync_errors |-> 0, joins |-> <<>>]

aggOthers == <<retry, evolveVars, alertVars, collect, fallback, monitor, downtime>>

\* The main thread calls start().
StartCall ==
    /\ agg.ctl = "idle"
    /\ agg.calls < MaxLifecycleCalls
    /\ agg' = [start_enter(agg) EXCEPT !.calls = @ + 1, !.starts = @ + 1]
    /\ UNCHANGED aggOthers

\* sync_alerts_with_current_data returns to start(), which launches the loop.
StartSyncReturns ==
    /\ agg.ctl = "sync"
    /\ \E outcome \in SyncOutcomes : agg' = start_finish(agg, outcome)
    /\ UNCHANGED aggOthers

\* The main thread calls stop().
StopCall ==
    /\ agg.ctl = "idle"
    /\ agg.calls < MaxLifecycleCalls
    /\ agg' = [stop_enter(agg) EXCEPT !.calls = @ + 1, !.stops = @ + 1]
    /\ UNCHANGED aggOthers

\* The join of stop() returns.
StopJoinReturns ==
    /\ agg.ctl = "join"
    /\ join(agg.threads[agg.thread].pc) # "blocked"
    /\ agg' = [agg EXCEPT !.ctl = "idle",
                          !.joins = Append(@, join(agg.threads[agg.thread].pc))]
    /\ UNCHANGED aggOthers

\* while self.running: a loop thread begins a cycle or leaves the loop.
LoopTest ==
    /\ \E t \in 1..Len(agg.threads) :
        /\ agg.threads[t].pc = "top"
        /\ agg.running => agg.threads[t].cycles < MaxCycles
        /\ agg' = [agg EXCEPT !.threads[t] =
                        IF agg.running
                        THEN [@ EXCEPT !.pc = "cycle", !.cycles = @ + 1]
                        ELSE [@ EXCEPT !.pc = "exited"]]
    /\ UNCHANGED aggOthers

\* _collect_facility_metrics and _check_for_alerts return: time.sleep(interval).
CycleCompletes ==
    /\ \E t \in 1..Len(agg.threads) :
        /\ agg.threads[t].pc = "cycle"
        /\ agg' = [agg EXCEPT !.threads[t] =
                        [@ EXCEPT !.pc = "sleeping", !.delay = CollectionInterval]]
    /\ UNCHANGED aggOthers

\* An exception leaves _collect_facility_metrics or _check_for_alerts.
CycleRaises ==
    /\ \E t \in 1..Len(agg.threads) :
        /\ agg.threads[t].pc = "cycle"
        /\ agg' = [agg EXCEPT !.threads[t] = on_cycle_error(@)]
    /\ UNCHANGED aggOthers

\* time.sleep returns.
SleepEnds ==
    /\ \E t \in 1..Len(agg.threads) :
        /\ agg.threads[t].pc = "sleeping"
        /\ agg' = [agg EXCEPT !.threads[t] = [@ EXCEPT !.pc = "top"]]
    /\ UNCHANGED aggOthers

AggNext ==
    \/ StartCall
    \/ StartSyncReturns
    \/ StopCall
    \/ StopJoinReturns
    \/ LoopTest
    \/ CycleCompletes
    \/ CycleRaises
    \/ SleepEnds

SpecAggregator == AggInit /\ [][AggNext]_vars

\* The join of stop() is not delayed for ever once it can return; nothing is
\* assumed of the loop threads, which may sleep or wait for storage for ever.
SpecAggregatorLive == SpecAggregator /\ WF_vars(StopJoinReturns)

(***************************************************************************)
(* Properties of the aggregator's life cycle                               *)
(***************************************************************************)

\* The step is a call of start() / of stop().
IsStartCall == agg'.starts = agg.starts + 1

IsStopCall == agg'.stops = agg.stops + 1

\* C13: a call of start() on an aggregator whose running flag is set changes
\* nothing but the count of calls: it begins no sync pass and launches no
\* loop thread.
C13_StartWhileRunningIsNoOp ==
    [][ (IsStartCall /\ agg.running) =>
            agg' = [agg EXCEPT !.calls = @ + 1, !.starts = @ + 1] ]_vars

C13_Witness ==
    /\ agg.starts = 2
    /\ agg.stops = 0
    /\ agg.running
    /\ agg.syncs_begun = 1
    /\ Len(agg.threads) = 1

\* Sync passes and loop threads pair up: while start() is in its sync pass
\* the pass has no loop thread yet, otherwise every pass begun has ended and
\* has been followed by the launch of one loop thread.
SyncBeforeLoop ==
    IF agg.ctl = "sync"
    THEN /\ agg.syncs_begun = agg.syncs_done + 1
         /\ Len(agg.threads) = agg.syncs_done
    ELSE /\ agg.syncs_begun = agg.syncs_done
         /\ Len(agg.threads) = agg.syncs_done

\* C14: a call of start() on a stopped aggregator begins exactly one sync
\* pass and launches nothing yet; the loop thread of that start exists, and
\* so begins its first cycle, only once the pass has ended, and it is
\* launched whether the pass was clean or its error was swallowed.
C14_OneSyncThenLoop ==
    [][ /\ (IsStartCall /\ ~agg.running) =>
                /\ agg'.syncs_begun = agg.syncs_begun + 1
                /\ agg'.ctl = "sync"
                /\ agg'.threads = agg.threads
        /\ SyncBeforeLoop' ]_vars

C14_Witness ==
    /\ agg.syncs_done = 1
    /\ agg.sync_errors = 1
    /\ agg.ctl = "idle"
    /\ Len(agg.threads) = 1
    /\ agg.threads[1].cycles >= 1

\* C15: stop() always returns: it clears the running flag; with no thread it
\* returns at once; with a thread its join returns, at the latest on the
\* timeout, also while the loop sleeps or waits for storage.
C15_StopAlwaysReturns ==
    /\ [][ IsStopCall =>
                /\ ~agg'.running
                /\ agg.thread = 0 => agg'.ctl = "idle" ]_vars
    /\ (agg.ctl = "join") ~> (agg.ctl = "idle")

C15_Witness ==
    /\ agg.stops = 1
    /\ agg.ctl = "idle"
    /\ ~agg.running
    /\ agg.joins = <<"timed_out">>
    /\ agg.threads[agg.thread].pc \in {"cycle", "sleeping"}

\* C16: an exception in a cycle leaves the loop thread in the 10 s sleep;
\* after any sleep the thread is back at the test of the loop, where it
\* begins another cycle if running is set; a thread leaves the loop only at
\* that test, with running cleared, which only stop() does.
C16_ExceptionNeverEndsLoop ==
    [][ \A t \in 1..Len(agg.threads) :
            LET a == agg.threads[t]
                b == agg'.threads[t]
            IN  /\ b.errors # a.errors =>
                        /\ a.pc = "cycle"
                        /\ b.pc = "sleeping"
                        /\ b.delay = RetryDelay
                /\ (a.pc = "sleeping" /\ b.pc # "sleeping") => b.pc = "top"
                /\ (a.pc = "top" /\ b.pc # "top") =>
                        b.pc = IF agg.running THEN "cycle" ELSE "exited"
                /\ (b.pc = "exited" /\ a.pc # "exited") =>
                        /\ a.pc = "top"
                        /\ ~agg.running
                        /\ agg.stops >= 1 ]_vars

C16_Witness ==
    \E t \in 1..Len(agg.threads) :
        /\ agg.threads[t].errors = 1
        /\ agg.threads[t].cycles = 2
        /\ agg.threads[t].pc = "cycle"
        /\ agg.threads[t].delay = RetryDelay
        /\ agg.stops = 0

(***************************************************************************)
(* DataService.get_weather_with_fallback / get_traffic_with_fallback       *)
(* (src/services/external_apis.py:429-465; RealDataService in              *)
(*  src/services/real_apis.py:333-363 has the same shape)                  *)
(***************************************************************************)

\* Largest number of requests explored.
MaxRequests == 4

DataKinds == {"weather", "traffic"}

\* What a provider can return: None (the simulated failure) or a payload,
\* of which two are told apart (conditions for weather, congestion_level
\* for traffic).
ProviderReturns(kind, source) ==
    {NoData} \cup
    { [ok |-> TRUE, provider |-> source, value |-> v] :
        v \in IF kind = "weather" THEN {"Clear", "Storm"} ELSE {"Clear", "Severe"} }

\* A bug that asks the secondary provider as well when the primary answered.
get_with_fallback_both(primary, secondary) ==
    [result |-> IF primary.ok THEN primary ELSE secondary,
     primary |-> primary, secondary |-> secondary,
     calls |-> <<"primary", "secondary">>,
     signal |-> IF primary.ok THEN "none" ELSE IF secondary.ok THEN "warning" ELSE "error"]

\* A bug that prefers the payload of the secondary provider.
get_with_fallback_secondary_first(primary, secondary) ==
    [result |-> IF secondary.ok THEN secondary ELSE primary,
     primary |-> primary, secondary |-> secondary,
     calls |-> <<"primary", "secondary">>,
     signal |-> IF primary.ok THEN "none" ELSE IF secondary.ok THEN "warning" ELSE "error"]

\* get_weather_with_fallback / get_traffic_with_fallback, primary and
\* secondary being what the providers return when they are called: the data
\* returned, what each provider returned, the provider calls in order and
\* the line printed.
get_with_fallback(primary, secondary) ==
    IF primary.ok
    THEN [result |-> primary, primary |-> primary, secondary |-> NotCalled,
          calls |-> <<"primary">>, signal |-> "none"]
    ELSE IF secondary.ok
    THEN [result |-> secondary, primary |-> primary, secondary |-> secondary,
          calls |-> <<"primary", "secondary">>, signal |-> "warning"]
    ELSE [result |-> NoData, primary |-> primary, secondary |-> secondary,
          calls |-> <<"primary", "secondary">>, signal |-> "error"]

FallbackInit ==
    /\ RetryIdle
    /\ EvolveIdle
    /\ AlertsIdle
    /\ CollectIdle
    /\ AggIdle
    /\ MonitorIdle
    /\ FallbackIdle
    /\ DowntimeIdle

\* The record of a request: its call and the line it printed.
Requested(kind, r) ==
    [n |-> fallback.n + 1, kind |-> kind, last |-> r,
     warnings |-> fallback.warnings + (IF r.signal = "warning" THEN 1 ELSE 0),
     errors |-> fallback.errors + (IF r.signal = "error" THEN 1 ELSE 0)]

\* DataService.get_weather_with_fallback(location)
GetWeatherWithFallback ==
    /\ fallback.n < MaxRequests
    /\ \E primary \in ProviderReturns("weather", "primary"),
          secondary \in ProviderReturns("weather", "secondary") :
        fallback' = Requested("weather", get_with_fallback(primary, secondary))
    /\ UNCHANGED <<retry, evolveVars, alertVars, collect, agg, monitor, downtime>>

\* DataService.get_traffic_with_fallback(route_id)
GetTrafficWithFallback ==
    /\ fallback.n < MaxRequests
    /\ \E primary \in ProviderReturns("traffic", "primary"),
          secondary \in ProviderReturns("traffic", "secondary") :
        fallback' = Requested("traffic", get_with_fallback(primary, secondary))
    /\ UNCHANGED <<retry, evolveVars, alertVars, collect, agg, monitor, downtime>>

FallbackNext ==
    \/ GetWeatherWithFallback
    \/ GetTrafficWithFallback

SpecFallback == FallbackInit /\ [][FallbackNext]_vars

(***************************************************************************)
(* Properties of the provider fallback                                     *)
(***************************************************************************)

\* C19: a request calls the primary provider first, calls the secondary
\* provider exactly when the primary returned None, and makes no other
\* provider call: one or two calls, neither provider twice.
C19_SecondaryIffPrimaryNone ==
    fallback.n > 0 =>
        LET r == fallback.last
        IN  /\ r.calls \in {<<"primary">>, <<"primary", "secondary">>}
            /\ (Len(r.calls) = 2) <=> ~r.primary.ok
            /\ (Len(r.calls) = 1) => r.secondary = NotCalled

C19_Witness ==
    /\ fallback.n > 0
    /\ ~fallback.last.primary.ok
    /\ fallback.last.secondary.ok
    /\ fallback.last.calls = <<"primary", "secondary">>
    /\ fallback.warnings = 1

\* C20: a request returns None exactly when the primary and the secondary
\* provider were both called and both returned None; otherwise it returns
\* the payload of the first of them, in that order, that returned one.
C20_NoneIffBothNone ==
    fallback.n > 0 =>
        LET r == fallback.last
        IN  /\ r.result = IF r.primary.ok THEN r.primary
                          ELSE IF r.secondary.ok THEN r.secondary
                          ELSE NoData
            /\ ~r.result.ok <=> (r.primary = NoData /\ r.secondary = NoData)

C20_Witness ==
    /\ fallback.n > 0
    /\ fallback.last.primary = NoData
    /\ fallback.last.secondary = NoData
    /\ fallback.last.result = NoData
    /\ fallback.errors = 1

(***************************************************************************)
(* SystemMonitor (src/services/background_services.py:242-295)             *)
(***************************************************************************)

\* Largest number of iterations of the monitoring loop explored.
MaxMonitorIterations == 2

\* self.monitor_interval, in seconds.
MonitorInterval == 300

\* time.sleep(30) after an exception in an iteration.
MonitorRetryDelay == 30

\* What the probes of one iteration can meet: both return, or one raises.
ProbeOutcomes == {"ok", "api_raises", "db_raises"}

\* A bug that tidies the alerts table during the health check.
check_database_health_purging(db, outcome) ==
    [db |-> [db EXCEPT !.alerts = <<>>], lines |-> 0]

\* _check_database_health: FacilityDB.get_all_active_facilities() is a
\* SELECT; an exception is caught and printed, an empty list is printed.
\* The tables after the call and the number of lines printed.
check_database_health(db, outcome) ==
    [db |-> db,
     lines |-> IF outcome = "db_raises" THEN 1
               ELSE IF SelectSeq(FacilityOrder,
                                 LAMBDA f : db.facilities[f].status = "active") = <<>>
               THEN 1 ELSE 0]

\* _check_api_health: one weather and one traffic request; a line is printed
\* for each that returns None.
check_api_health(weather, traffic) ==
    (IF weather.result.ok THEN 0 ELSE 1) + (IF traffic.result.ok THEN 0 ELSE 1)

\* The ledgers the monitor may find: none, or an unresolved equipment_down
\* alert of facility 2.
MonitorLedgers ==
    { <<>>,
      <<[facility_id |-> 2, alert_type |-> "equipment_down", severity |-> "critical",
         resolved |-> FALSE, age |-> 0]>> }

\* The simulated states the monitor may find: none yet, or a hub after its
\* first get_facility_metrics.
MonitorProviderStates ==
    { <<[facility_type |-> "station", state |-> NoState], NoCall>> } \cup
    UNION { { <<[facility_type |-> "hub", state |-> s],
                [n |-> 1, result |-> "metrics", hours |-> ColdStartHours,
                 cooldown_before |-> i.equipment_change_cooldown,
                 status_before |-> i.equipment_status]>> :
                s \in update_facility_state(i, "hub", ColdStartHours) } :
            i \in { j \in initialize_facility_state("hub") :
                        /\ j.staffing_level = 150
                        /\ j.productivity_rate = 8500 } }

\* SystemMonitor.__init__, beside tables and a provider in one of the states
\* the aggregator leaves them in.
MonitorInit ==
    /\ RetryIdle
    /\ CollectIdle
    /\ AggIdle
    /\ FallbackIdle
    /\ DowntimeIdle
    /\ facilities \in {r \in [Facilities -> UNION {FacilityRows(f) : f \in Facilities}] :
                          \A f \in Facilities : r[f] \in FacilityRows(f)}
    /\ metrics \in {m \in [Facilities -> UNION {MetricsSamples(f) \cup {NoMetrics} : f \in Facilities}] :
                          /\ m[1] = NoMetrics
                          /\ m[2] \in MetricsSamples(2) \cup {NoMetrics}}
    /\ alerts \in MonitorLedgers
    /\ alerts # <<>> => metrics[2].has_row
    /\ hist = "other"
    /\ \E found \in MonitorProviderStates :
        /\ provider = found[1]
        /\ last_call = found[2]
    /\ ClockIdle
    /\ monitor = [running |-> FALSE, pc |-> "off", iterations |-> 0, delay |-> 0,
                  lines |-> 0, raised |-> 0]

monitorOthers == <<retry, collect, agg, fallback, downtime>>

monitored == <<facilities, metrics, alerts, hist, provider, last_call, clock>>

\* SystemMonitor.start(): the flag is set and the loop thread launched.
\* start_all_services starts the monitor once, so one thread is followed.
MonitorStart ==
    /\ ~monitor.running
    /\ monitor.pc = "off"
    /\ monitor' = [monitor EXCEPT !.running = TRUE, !.pc = "top"]
    /\ UNCHANGED <<monitorOthers, monitored>>

\* SystemMonitor.stop(): the flag is cleared.
MonitorStop ==
    /\ monitor.running
    /\ monitor' = [monitor EXCEPT !.running = FALSE]
    /\ UNCHANGED <<monitorOthers, monitored>>

\* while self.running
MonitorTest ==
    /\ monitor.pc = "top"
    /\ monitor.running => monitor.iterations < MaxMonitorIterations
    /\ monitor' = IF monitor.running
                  THEN [monitor EXCEPT !.pc = "probing", !.iterations = @ + 1]
                  ELSE [monitor EXCEPT !.pc = "exited"]
    /\ UNCHANGED <<monitorOthers, monitored>>

\* One iteration: _check_api_health, _check_database_health and the sleep
\* that follows; an exception that leaves _check_api_health skips the
\* database check and is followed by the short sleep.
MonitorIteration ==
    /\ monitor.pc = "probing"
    /\ \E outcome \in ProbeOutcomes :
       \E wp \in ProviderReturns("weather", "primary"),
          ws \in ProviderReturns("weather", "secondary"),
          tp \in ProviderReturns("traffic", "primary"),
          ts \in ProviderReturns("traffic", "secondary") :
        LET api == check_api_health(get_with_fallback(wp, ws), get_with_fallback(tp, ts))
            health == check_database_health(
                        [facilities |-> facilities, metrics |-> metrics, alerts |-> alerts],
                        outcome)
        IN  IF outcome = "api_raises"
            THEN /\ monitor' = [monitor EXCEPT !.pc = "sleeping", !.lines = 1,
                                    !.delay = MonitorRetryDelay, !.raised = @ + 1]
                 /\ UNCHANGED <<facilities, metrics, alerts>>
            ELSE /\ monitor' = [monitor EXCEPT !.pc = "sleeping",
                                    !.lines = api + health.lines,
                                    !.delay = MonitorInterval]
                 /\ facilities' = health.db.facilities
                 /\ metrics' = health.db.metrics
                 /\ alerts' = health.db.alerts
    /\ UNCHANGED <<monitorOthers, hist, provider, last_call, clock>>

\* time.sleep returns.
MonitorSleepEnds ==
    /\ monitor.pc = "sleeping"
    /\ monitor' = [monitor EXCEPT !.pc = "top"]
    /\ UNCHANGED <<monitorOthers, monitored>>

MonitorNext ==
    \/ MonitorStart
    \/ MonitorStop
    \/ MonitorTest
    \/ MonitorIteration
    \/ MonitorSleepEnds

SpecMonitor == MonitorInit /\ [][MonitorNext]_vars

(***************************************************************************)
(* Properties of the health monitor                                        *)
(***************************************************************************)

\* C18: every step of the health monitor (its start, its stop, and each
\* iteration of its loop, whether the probes return data, return None or
\* raise) leaves the alert ledger, the metrics and facilities tables and
\* the simulated per-facility state as they were.
C18_MonitorLeavesStateAlone ==
    [][UNCHANGED <<alerts, metrics, facilities, provider, last_call>>]_vars

C18_Witness ==
    /\ monitor.iterations = 2
    /\ monitor.raised = 1
    /\ monitor.pc = "sleeping"
    /\ monitor.delay = MonitorInterval
    /\ monitor.lines = 3
    /\ alerts # <<>>
    /\ metrics[2].has_row
    /\ provider.state.has_state

(***************************************************************************)
(* Properties of sync_alerts_with_current_data and of the alerts opened    *)
(***************************************************************************)

\* The rows a pass appended to the ledger.
Opened(before, after) == (Len(before) + 1)..Len(after)

\* C21: from any ledger and facility state, sync_alerts_with_current_data
\* leaves what one pass of _check_for_alerts leaves: the same resolved flags
\* on the rows that were there, and for every facility and every one of the
\* four alert types the same number of unresolved alerts.
C21_SyncEqualsCheckPass ==
    LET synced == sync_alerts_with_current_data(alerts, NoFailure).ledger
        checked == check_for_alerts(alerts, NoFailure).ledger
    IN  /\ \A i \in 1..Len(alerts) : synced[i].resolved = checked[i].resolved
        /\ \A f \in Facilities, type \in AlertTypes :
              Cardinality(Unresolved(synced, f, type)) =
              Cardinality(Unresolved(checked, f, type))

\* C23: every alert a pass of _check_for_alerts or of
\* sync_alerts_with_current_data opens is justified by the rows the pass
\* read: low_productivity only below 70% productivity, equipment_down only
\* for status Down, equipment_maintenance only for status Maintenance,
\* high_capacity only above 90% load; equipment_down is opened as critical
\* and the other three as warning.
C23_OpenedAlertsAreJustified ==
    [][ \A j \in Opened(alerts, alerts') :
            LET f == alerts'[j].facility_id
                type == alerts'[j].alert_type
            IN  /\ type = "low_productivity" =>
                      /\ metrics[f].has_row
                      /\ metrics[f].productivity_rate < LowProductivityThreshold
                /\ type = "equipment_down" => metrics[f].equipment_status = "Down"
                /\ type = "equipment_maintenance" =>
                      metrics[f].equipment_status = "Maintenance"
                /\ type = "high_capacity" =>
                      /\ facilities[f].max_capacity > 0
                      /\ facilities[f].current_load * 100 >
                            HighCapacityPercent * facilities[f].max_capacity
                /\ alerts'[j].severity =
                      IF type = "equipment_down" THEN "critical" ELSE "warning"
                /\ ~alerts'[j].resolved ]_vars

C23_Witness ==
    /\ hist = "check_ok"
    /\ metrics[2].productivity_rate = LowProductivityThreshold
    /\ Len(alerts) = 2
    /\ alerts[1].alert_type = "equipment_down"
    /\ alerts[1].severity = "critical"
    /\ alerts[2].alert_type = "high_capacity"
    /\ alerts[2].severity = "warning"
    /\ alerts[1].age = 0

(***************************************************************************)
(* DataAggregator._check_capacity_alerts on rows with max_capacity <= 0    *)
(* (src/services/background_services.py:154-169)                           *)
(***************************************************************************)

\* Rows of the facilities table for the capacity check: facility 1 with a
\* negative, a zero or a small positive max_capacity, facility 2 above 90%
\* load or at exactly 90%.
CapacityRows(f) ==
    IF f = 1
    THEN [id : {f}, facility_type : {"station"}, status : {"active"},
          max_capacity : {-10, 0, 100}, current_load : {95}]
    ELSE FacilityRows(f)

CapacityFailurePlans ==
    {NoFailure}
    \cup [part : {"capacity"}, facility : {0}, call : {"list"}]
    \cup [part : {"capacity"}, facility : Facilities, call : {"exists", "insert"}]

CapacityInit ==
    /\ RetryIdle
    /\ EvolveIdle
    /\ ServiceIdle
    /\ facilities \in {r \in [Facilities -> UNION {CapacityRows(f) : f \in Facilities}] :
                          \A f \in Facilities : r[f] \in CapacityRows(f)}
    /\ metrics = [f \in Facilities |-> NoMetrics]
    /\ alerts = <<>>
    /\ hist = "other"

\* One call of _check_capacity_alerts.
CheckCapacityAlerts ==
    /\ \E plan \in CapacityFailurePlans :
        \E r \in {CheckPart("capacity", alerts, plan)} :
        /\ Len(r.ledger) <= MaxAlerts
        /\ alerts' = r.ledger
        /\ hist' = IF r.raised THEN "capacity_raised" ELSE "capacity_ok"
    /\ UNCHANGED <<retry, evolveVars, serviceVars, facilities, metrics>>

CapacityNext ==
    \/ CheckCapacityAlerts
    \/ AdvanceClock
    \/ ResolveAlert

SpecCapacity == CapacityInit /\ [][CapacityNext]_vars

\* The facilities whose max_capacity is zero or negative.
InvalidCapacity == {f \in Facilities : facilities[f].max_capacity <= 0}

\* C24: with a facility whose max_capacity is zero or negative, a call of
\* _check_capacity_alerts that meets no storage failure does not raise,
\* opens no high_capacity alert for that facility, and leaves every other
\* facility above 90% load with a high_capacity alert that counts as
\* existing.
C24_InvalidCapacityIsSkipped ==
    [][ InvalidCapacity # {} =>
          /\ ~CheckPart("capacity", alerts, NoFailure).raised
          /\ hist' = "capacity_ok" =>
                /\ \A j \in Opened(alerts, alerts') :
                      alerts'[j].facility_id \notin InvalidCapacity
                /\ \A g \in Facilities \ InvalidCapacity :
                      HighCapacity(g) =>
                          check_existing_alert(alerts', g, "high_capacity") ]_vars

C24_Witness ==
    /\ hist = "capacity_ok"
    /\ facilities[1].max_capacity < 0
    /\ HighCapacity(2)
    /\ Len(alerts) = 1
    /\ alerts[1].facility_id = 2
    /\ alerts[1].alert_type = "high_capacity"
    /\ alerts[1].age = 0

(***************************************************************************)
(* MockInternalDataProvider.get_facility_metrics against the wall clock    *)
(* (src/services/external_apis.py:192-227)                                 *)
(***************************************************************************)

\* Latest reading of the clock explored, in hours.
MaxNow == 16

\* The hours that pass between two calls, when any do.
TickChoices == {ShiftHours}

\* A bug that stamps last_update_time although the data was unavailable.
on_unavailable_stamping(c) ==
    [c EXCEPT !.has_update = TRUE, !.last_update_time = c.now, !.skipped_at = c.now]

\* get_facility_metrics returning None: last_update_time is not touched.
on_unavailable(c) == [c EXCEPT !.skipped_at = c.now]

\* A bug that takes the default hour on every call.
hours_since_update_default(c) == ColdStartHours

\* last_update = self.last_update_time.get(facility_id, current_time - timedelta(hours=1))
\* hours_since_update = (current_time - last_update).total_seconds() / 3600
hours_since_update(c) ==
    IF c.has_update THEN c.now - c.last_update_time ELSE ColdStartHours

\* self.last_update_time[facility_id] = current_time
on_update(c) == [c EXCEPT !.has_update = TRUE, !.last_update_time = c.now]

ClockInit ==
    /\ RetryIdle
    /\ AlertsIdle
    /\ ServiceIdle
    /\ \E facility_type \in FacilityTypes :
        provider = [facility_type |-> facility_type, state |-> NoState]
    /\ last_call = NoCall
    /\ ClockIdle

\* Time passes between two calls.
Tick ==
    /\ \E d \in TickChoices :
        /\ clock.now + d <= MaxNow
        /\ clock' = [clock EXCEPT !.now = @ + d]
    /\ UNCHANGED <<provider, last_call, retry, alertVars, serviceVars>>

\* get_facility_metrics at clock.now where the data is unavailable.
ObserveUnavailable ==
    /\ last_call.n < MaxCalls
    /\ last_call' = [NoCall EXCEPT !.n = last_call.n + 1, !.result = "None"]
    /\ clock' = on_unavailable(clock)
    /\ UNCHANGED <<provider, retry, alertVars, serviceVars>>

\* The first get_facility_metrics at clock.now that finds data.
ObserveColdStart ==
    /\ last_call.n < MaxCalls
    /\ ~provider.state.has_state
    /\ \E state \in initialize_facility_state(provider.facility_type) :
        Evolve(state, hours_since_update(clock))
    /\ clock' = on_update(clock)
    /\ UNCHANGED <<retry, alertVars, serviceVars>>

\* A later get_facility_metrics at clock.now that finds data.
Observe ==
    /\ last_call.n < MaxCalls
    /\ provider.state.has_state
    /\ Evolve(provider.state, hours_since_update(clock))
    /\ clock' = on_update(clock)
    /\ UNCHANGED <<retry, alertVars, serviceVars>>

ClockNext ==
    \/ Tick
    \/ ObserveUnavailable
    \/ ObserveColdStart
    \/ Observe

SpecClock == ClockInit /\ [][ClockNext]_vars

\* C22: the clock and last_update_time never go back; a call that finds
\* data applies the hours between the last call that found data and now
\* (one hour if there was none) and stamps last_update_time with now; a
\* call that finds the data unavailable leaves the state and
\* last_update_time as they were, so that the hours it passed over are
\* applied by the next call that finds data.
C22_StateAdvancesByElapsedTime ==
    [][ /\ clock'.now >= clock.now
        /\ clock.has_update =>
              /\ clock'.has_update
              /\ clock'.last_update_time >= clock.last_update_time
        /\ last_call'.n = last_call.n + 1 =>
              IF last_call'.result = "metrics"
              THEN /\ last_call'.hours = IF clock.has_update
                                         THEN clock.now - clock.last_update_time
                                         ELSE ColdStartHours
                   /\ last_call'.hours >= 0
                   /\ clock'.has_update
                   /\ clock'.last_update_time = clock.now
              ELSE /\ provider' = provider
                   /\ clock'.has_update = clock.has_update
                   /\ clock'.last_update_time = clock.last_update_time ]_vars

C22_Witness ==
    /\ last_call.n = 3
    /\ last_call.result = "metrics"
    /\ clock.last_update_time = clock.now
    /\ clock.skipped_at > 0
    /\ clock.skipped_at < clock.now
    /\ last_call.hours > clock.now - clock.skipped_at

(***************************************************************************)
(* Properties of the equipment transitions, the downtime and the relaxation*)
(***************************************************************************)

\* The cooldown range, in hours, of a change of equipment_status; empty for
\* a change that may not happen.
CooldownRange(from, to) ==
    CASE from = "Operational" /\ to = "Maintenance" -> 4..12
      [] from = "Operational" /\ to = "Down" -> 1..6
      [] from = "Maintenance" /\ to = "Operational" -> 24..72
      [] from = "Down" /\ to = "Operational" -> 12..48
      [] from = "Down" /\ to = "Maintenance" -> 2..8
      [] OTHER -> {}

\* C25: equipment_status is always Operational, Maintenance or Down; a call
\* that changes it makes one of the changes Operational->Maintenance,
\* Operational->Down, Maintenance->Operational, Down->Operational,
\* Down->Maintenance, and leaves the cooldown in the range of that change.
C25_OnlyListedTransitions ==
    /\ provider.state.has_state =>
          provider.state.equipment_status \in {"Operational", "Maintenance", "Down"}
    /\ StatusChanged =>
          provider.state.equipment_change_cooldown \in
              CooldownRange(last_call.status_before, provider.state.equipment_status)

C25_Witness ==
    /\ StatusChanged
    /\ last_call.status_before = "Down"
    /\ provider.state.equipment_status = "Maintenance"
    /\ provider.state.equipment_change_cooldown = 8

\* v lies between a and b, the ends included.
Between(a, v, b) == Min(a, b) <= v /\ v <= Max(a, b)

\* C27: whatever the hours elapsed, the productivity and the timeliness a
\* call computes before it applies the bounds lie between the value before
\* the call and the target, the ends included: the step closes
\* min(1, 0.1 x hours) of the gap for productivity and min(1, 0.2 x hours)
\* for timeliness, and never more than the gap.
C27_RelaxationNeverOvershoots ==
    provider.state.has_state =>
        \A hours_elapsed \in HoursChoices :
            LET state == provider.state
                facility_type == provider.facility_type
            IN  /\ Between(state.productivity_rate,
                           NewProductivity(state, facility_type, hours_elapsed),
                           TargetProductivity(state, facility_type))
                /\ Between(state.delivery_timeliness,
                           NewTimeliness(state, facility_type, hours_elapsed),
                           TargetTimeliness(state, facility_type))

\* C28: the first call that finds data starts from a state with staffing in
\* [150,250] for a hub and [15,25] for a station, equipment_status
\* Operational or Maintenance, and cooldown, staffing trend and downtime 0;
\* every later call that finds data evolves the state the facility has, and
\* a facility that has a state keeps it.
C28_ColdStartCreatesOneState ==
    [][ /\ provider.state.has_state => provider'.state.has_state
        /\ (last_call'.n = last_call.n + 1 /\ last_call'.result = "metrics") =>
              IF ~provider.state.has_state
              THEN /\ last_call'.status_before \in {"Operational", "Maintenance"}
                   /\ last_call'.cooldown_before = 0
                   /\ \A state \in initialize_facility_state(provider.facility_type) :
                         /\ state.staffing_level \in
                               (IF provider.facility_type = "hub" THEN 150..250 ELSE 15..25)
                         /\ state.equipment_status \in {"Operational", "Maintenance"}
                         /\ state.equipment_change_cooldown = 0
                         /\ state.staffing_trend = 0
                         /\ state.downtime_minutes = 0
                   /\ \E state \in initialize_facility_state(provider.facility_type) :
                         provider'.state \in
                             update_facility_state(state, provider.facility_type,
                                                   last_call'.hours)
              ELSE /\ last_call'.status_before = provider.state.equipment_status
                   /\ last_call'.cooldown_before = provider.state.equipment_change_cooldown
                   /\ provider'.state \in
                         update_facility_state(provider.state, provider.facility_type,
                                               last_call'.hours) ]_vars

C28_Witness ==
    /\ last_call.n = 2
    /\ last_call.result = "metrics"
    /\ last_call.hours = ShiftHours
    /\ provider.facility_type = "hub"
    /\ provider.state.has_state
    /\ provider.state.equipment_status = "Down"

(***************************************************************************)
(* MockInternalDataProvider._update_downtime after the transition step     *)
(* (src/services/external_apis.py:255-276, 408-418)                        *)
(***************************************************************************)

\* The seconds beyond whole hours that a call may find elapsed.
ExtraSeconds == {0, 30, 60, 90}

\* The states a call may start from, as far as the downtime goes.
DowntimeStates ==
    [has_state : {TRUE}, equipment_status : {"Operational", "Maintenance", "Down"},
     downtime_minutes : {0, 20, 470}, equipment_change_cooldown : {0, 5}]

DowntimeInit ==
    /\ RetryIdle
    /\ EvolveIdle
    /\ AlertsIdle
    /\ CollectIdle
    /\ AggIdle
    /\ FallbackIdle
    /\ MonitorIdle
    /\ DowntimeIdle

\* One call of _update_facility_state, as far as the equipment and the
\* downtime go, hours and seconds after the last one.
UpdateDowntime ==
    /\ \E state \in DowntimeStates, hours \in {ColdStartHours, ShiftHours},
          seconds \in ExtraSeconds :
        \E r \in equipment_then_downtime(state, hours, seconds) :
            downtime' = [calls |-> 1,
                         status_before |-> state.equipment_status,
                         status_after |-> r.equipment_status,
                         minutes_before |-> state.downtime_minutes,
                         seconds |-> hours * 3600 + seconds,
                         minutes_after |-> r.downtime_minutes]
    /\ UNCHANGED <<retry, evolveVars, alertVars, collect, agg, fallback, monitor>>

DowntimeNext == UpdateDowntime

SpecDowntime == DowntimeInit /\ [][DowntimeNext]_vars

\* C26 as stated: after a call, downtime_minutes is the value before it plus
\* 60 times the elapsed hours, capped at 480, if the status after the
\* transition step is Down; minus 30 times the elapsed hours, floored at 0,
\* if it is Operational; unchanged if it is Maintenance. (Minutes are
\* compared in seconds: 60 per hour is 1 per 60 s, 30 per hour is 1 per 120 s.)
C26_DowntimeFollowsElapsedHours ==
    downtime.calls > 0 =>
        CASE downtime.status_after = "Down" ->
                downtime.minutes_after * 60 =
                    Min(480 * 60, downtime.minutes_before * 60 + downtime.seconds)
          [] downtime.status_after = "Operational" ->
                downtime.minutes_after * 120 =
                    Max(0, downtime.minutes_before * 120 - downtime.seconds)
          [] OTHER -> downtime.minutes_after = downtime.minutes_before

\* C26 as amended: the amounts are whole minutes, int(60 x elapsed_hours)
\* and int(30 x elapsed_hours), the fraction of a minute being dropped.
C26_DowntimeFollowsWholeMinutes ==
    downtime.calls > 0 =>
        CASE downtime.status_after = "Down" ->
                downtime.minutes_after =
                    Min(480, downtime.minutes_before + downtime.seconds \div 60)
          [] downtime.status_after = "Operational" ->
                downtime.minutes_after =
                    Max(0, downtime.minutes_before - downtime.seconds \div 120)
          [] OTHER -> downtime.minutes_after = downtime.minutes_before

C26_Witness ==
    /\ downtime.calls > 0
    /\ downtime.status_before = "Operational"
    /\ downtime.status_after = "Down"
    /\ downtime.minutes_before = 20
    /\ downtime.seconds = 3630
    /\ downtime.minutes_after = 80

(***************************************************************************)
(* stop() at the end of the program (src/main.py:17-20, src/app.py:28-31): *)
(* the loop thread is a daemon thread                                      *)
(***************************************************************************)

\* The interpreter exits: a daemon thread that has not ended is stopped
\* where it is.
at_exit(th) == IF th.pc = "exited" THEN th ELSE [th EXCEPT !.pc = "killed"]

\* finally: data_aggregator.stop() has returned and the main thread, the
\* only non-daemon thread, ends.
ProcessExits ==
    /\ agg.ctl = "idle"
    /\ ~agg.running
    /\ agg.stops > 0
    /\ agg' = [agg EXCEPT !.ctl = "exit",
                          !.threads = [t \in 1..Len(agg.threads) |-> at_exit(agg.threads[t])]]
    /\ UNCHANGED aggOthers

ShutdownNext ==
    \/ AggNext
    \/ ProcessExits

SpecShutdown == AggInit /\ [][ShutdownNext]_vars

\* A loop thread that is scheduled goes on: the calls of a cycle return, the
\* sleep ends, the loop condition is tested.
SpecShutdownLive ==
    /\ SpecShutdown
    /\ WF_vars(StopJoinReturns)
    /\ WF_vars(LoopTest)
    /\ WF_vars(CycleCompletes \/ CycleRaises)
    /\ WF_vars(SleepEnds)

\* C29: once stop() has cleared the running flag, a loop thread that is in
\* a cycle leaves the cycle only by finishing it (its writes and its alert
\* reconciliation made, or its exception handled), and, unless start() sets
\* the flag again, every loop thread ends.
C29_StopDoesNotCutWorkShort ==
    /\ [][ \A t \in 1..Len(agg.threads) :
              (~agg.running /\ agg.threads[t].pc = "cycle") =>
                  agg'.threads[t].pc \in {"cycle", "sleeping"} ]_vars
    /\ \A t \in 1..MaxLifecycleCalls :
          (t <= Len(agg.threads) /\ ~agg.running)
              ~> (agg.running \/ (t <= Len(agg.threads) /\ agg.threads[t].pc = "exited"))

(***************************************************************************)
(* The life of an alert: POST /resolve_alert/<id> against the passes       *)
(* (src/routes.py:205-212, src/database/logic.py:146-161)                  *)
(***************************************************************************)

\* The alert types a pass looks after: _check_for_alerts all four,
\* sync_alerts_with_current_data the equipment types and low_productivity.
TypesOfPass(label) ==
    IF label \in CheckOk THEN AlertTypes
    ELSE IF label = "sync_ok" THEN AlertTypes \ {"high_capacity"}
    ELSE {}

\* The ids of the resolved rows of one (facility_id, alert_type) pair.
Acknowledged(ledger, f, type) ==
    {i \in 1..Len(ledger) :
        /\ ledger[i].facility_id = f
        /\ ledger[i].alert_type = type
        /\ ledger[i].resolved}

OpenEquipmentRow(ledger, i, f) ==
    /\ ledger[i].facility_id = f
    /\ ledger[i].alert_type \in EquipmentAlertTypes
    /\ ~ledger[i].resolved

\* C32: on every ledger, resolving the equipment alerts of a facility sets
\* resolved on that facility's unresolved equipment_down and
\* equipment_maintenance rows and leaves every other row as it was; and in
\* every step, a row whose resolved flag changes is either such a row of a
\* facility read as Operational or the row named in POST /resolve_alert: a
\* pass leaves the rows of other types and of other facilities unchanged, so
\* an open low_productivity alert stays open.
C32_ResolveTouchesOnlyOwnEquipmentAlerts ==
    /\ [](\A f \in Facilities :
            LET after == resolve_equipment_alerts_for_facility(alerts, NoFailure, f) IN
            /\ Len(after) = Len(alerts)
            /\ \A i \in 1..Len(alerts) :
                  after[i] = IF OpenEquipmentRow(alerts, i, f)
                             THEN [alerts[i] EXCEPT !.resolved = TRUE]
                             ELSE alerts[i])
    /\ [][ \A i \in 1..Len(alerts) :
              \/ alerts'[i] = [alerts[i] EXCEPT !.age = alerts'[i].age]
              \/ /\ OpenEquipmentRow(alerts, i, alerts[i].facility_id)
                 /\ metrics[alerts[i].facility_id].equipment_status = "Operational"
                 /\ alerts'[i] = [alerts[i] EXCEPT !.resolved = TRUE]
              \/ alerts' = resolve_alert(alerts, i) ]_vars

\* Facility 2 went from Down to Operational with productivity below 0.70:
\* the pass resolved its equipment_down alert and its low_productivity alert
\* is still open.
C32_Witness ==
    /\ hist = "check_ok"
    /\ metrics[2].equipment_status = "Operational"
    /\ LowProductivity(2)
    /\ Cardinality(Unresolved(alerts, 2, "low_productivity")) = 1
    /\ Acknowledged(alerts, 2, "equipment_down") # {}
    /\ Unresolved(alerts, 2, "equipment_down") = {}

(***************************************************************************)
(* The ledger catches up with the latest persisted state                   *)
(* (src/services/background_services.py:32-42, 88-152, 171-189)            *)
(***************************************************************************)

\* The triggering predicate of an alert type on given facility_metrics rows.
TriggeredBy(rows, f, type) ==
    CASE type = "low_productivity" ->
            rows[f].has_row /\ rows[f].productivity_rate < LowProductivityThreshold
      [] type = "equipment_down" -> rows[f].equipment_status = "Down"
      [] type = "equipment_maintenance" -> rows[f].equipment_status = "Maintenance"
      [] type = "high_capacity" -> HighCapacity(f)

\* The (facility_id, alert_type) pairs a pass of _check_for_alerts would
\* insert a row for, given the facility_metrics rows and the ledger.
WouldOpen(rows, ledger) ==
    {pair \in Facilities \X AlertTypes :
        /\ TriggeredBy(rows, pair[1], pair[2])
        /\ ~check_existing_alert(ledger, pair[1], pair[2])}

\* The ledger has room for what the next pass inserts: the writers around
\* the loop stop short of the MaxAlerts rows explored, so that the loop's
\* pass is never cut off by the bound.
HasRoom(rows, ledger) == Len(ledger) + Cardinality(WouldOpen(rows, ledger)) <= MaxAlerts

\* The samples persisted while the ledger catches up: every equipment status
\* the provider reports, with productivity at 0.70.
CatchUpSamples(f) == {sample \in MetricsSamples(f) : sample.productivity_rate = 700}

\* The facilities table while the ledger catches up: facility 2 at 90% load.
CatchUpInit ==
    /\ AlertsInit
    /\ facilities[2].current_load = 900

\* A writer persists a new facility_metrics row between two cycles.
PersistMetrics ==
    /\ \E f \in Facilities : \E sample \in CatchUpSamples(f) :
        /\ HasRoom([metrics EXCEPT ![f] = sample], alerts)
        /\ metrics' = [metrics EXCEPT ![f] = sample]
    /\ hist' = "other"
    /\ UNCHANGED <<retry, evolveVars, serviceVars, facilities, alerts>>

\* POST /resolve_alert/<alert_id> between two cycles.
Acknowledge ==
    /\ \E alert_id \in 1..Len(alerts) :
        /\ HasRoom(metrics, resolve_alert(alerts, alert_id))
        /\ alerts' = resolve_alert(alerts, alert_id)
    /\ hist' = "other"
    /\ UNCHANGED <<retry, evolveVars, serviceVars, facilities, metrics>>

\* Thirty minutes pass between two cycles.
TimePasses ==
    /\ HasRoom(metrics, [i \in 1..Len(alerts) |-> [alerts[i] EXCEPT !.age = Older(@)]])
    /\ alerts' = [i \in 1..Len(alerts) |-> [alerts[i] EXCEPT !.age = Older(@)]]
    /\ hist' = "other"
    /\ UNCHANGED <<retry, evolveVars, serviceVars, facilities, metrics>>

\* The pass of a cycle in which storage is available.
UndisturbedCheck ==
    /\ hist' = IF hist \in CheckOk THEN "check_ok_again" ELSE "check_ok"
    /\ alerts' = check_for_alerts(alerts, NoFailure).ledger
    /\ UNCHANGED <<retry, evolveVars, serviceVars, facilities, metrics>>

\* The pass _check_for_alerts would make now fits the rows explored.
RoomForPass == Len(check_for_alerts(alerts, NoFailure).ledger) <= MaxAlerts

CatchUpNext ==
    \/ PersistMetrics
    \/ Acknowledge
    \/ TimePasses
    \/ CheckForAlerts

SpecCatchUp == CatchUpInit /\ [][CatchUpNext]_vars

\* while self.running: the loop keeps reaching _check_for_alerts, and storage
\* is available again and again.
SpecCatchUpLive == SpecCatchUp /\ WF_vars(UndisturbedCheck)

\* The ledger agrees with the latest persisted equipment_status of f: an
\* unresolved equipment_down alert if it is Down, an unresolved
\* equipment_maintenance alert if it is Maintenance, no unresolved equipment
\* alert if it is Operational.
CaughtUp(f) ==
    /\ metrics[f].equipment_status = "Down" => Unresolved(alerts, f, "equipment_down") # {}
    /\ metrics[f].equipment_status = "Maintenance" =>
            Unresolved(alerts, f, "equipment_maintenance") # {}
    /\ metrics[f].equipment_status = "Operational" =>
            \A type \in EquipmentAlertTypes : Unresolved(alerts, f, type) = {}

\* C33: with the loop scheduled fairly and storage available again and again,
\* the ledger catches up with every facility again and again; so a facility
\* whose latest persisted equipment_status stays Down (Maintenance)
\* eventually has an unresolved equipment_down (equipment_maintenance)
\* alert, and one whose status stays Operational eventually has all its
\* unresolved equipment alerts resolved.
C33_LedgerCatchesUp == \A f \in Facilities : []<>CaughtUp(f)

\* A pass was cut short by a storage failure in the equipment check while
\* facility 2 was Down, and a later pass has opened the alert; then the
\* facility returned to Operational and a pass resolved it.
C33_Witness ==
    /\ hist \in CheckOk
    /\ metrics[2].equipment_status = "Operational"
    /\ metrics[1].equipment_status = "Down"
    /\ Unresolved(alerts, 1, "equipment_down") # {}
    /\ Acknowledged(alerts, 2, "equipment_down") # {}
    /\ \A type \in EquipmentAlertTypes : Unresolved(alerts, 2, type) = {}

(***************************************************************************)
(* DataService.get_facility_metrics (src/services/external_apis.py:467-470)*)
(***************************************************************************)

\* What internal_data.get_facility_metrics returns: None (the simulated
\* unavailability) or a FacilityMetrics, of which two are told apart by
\* their equipment_status.
InternalReturns ==
    {NoData} \cup
    { [ok |-> TRUE, provider |-> "primary", value |-> v] : v \in {"Operational", "Down"} }

\* return internal_data.get_facility_metrics(facility_id, facility_type):
\* one call of the internal provider, whose answer is handed on as it is.
get_facility_metrics(primary) ==
    [result |-> primary, primary |-> primary, secondary |-> NotCalled,
     calls |-> <<"primary">>, signal |-> "none"]

\* DataService.get_facility_metrics(facility_id, facility_type)
GetFacilityMetricsFromService ==
    /\ fallback.n < MaxRequests
    /\ \E primary \in InternalReturns :
        fallback' = Requested("facility_metrics", get_facility_metrics(primary))
    /\ UNCHANGED <<retry, evolveVars, alertVars, collect, agg, monitor, downtime>>

DataServiceNext ==
    \/ GetWeatherWithFallback
    \/ GetTrafficWithFallback
    \/ GetFacilityMetricsFromService

SpecDataService == FallbackInit /\ [][DataServiceNext]_vars

\* C34: a request for facility metrics whose primary provider returned None
\* has called exactly one secondary provider, after the primary, before it
\* returns None.
C34_FacilityMetricsFailOver ==
    (fallback.n > 0 /\ fallback.kind = "facility_metrics" /\ ~fallback.last.primary.ok) =>
        fallback.last.calls = <<"primary", "secondary">>

(***************************************************************************)
(* The sleeps of retry_db_operation (src/database/logic.py:28-32)          *)
(***************************************************************************)

\* C35: the sleep before retry number i (i = 0 after the first failed
\* attempt) is at least base_delay x 2^i and at most base_delay x 2^i plus a
\* jitter drawn from the window [0, base_delay].
C35_SleepWithinBaseDelayWindow ==
    \A k \in 1..Len(retry.sleeps) :
        /\ retry.sleeps[k] >= retry.base_delay * Pow2(k - 1)
        /\ retry.sleeps[k] <= retry.base_delay * Pow2(k - 1) + retry.base_delay

\* What the code keeps of it: the deterministic part base_delay x 2^i
\* doubles, and the jitter lies in the fixed window [0, 0.1 s].
SleepWithinFixedWindow ==
    \A k \in 1..Len(retry.sleeps) :
        /\ retry.sleeps[k] >= retry.base_delay * Pow2(k - 1)
        /\ retry.sleeps[k] <= retry.base_delay * Pow2(k - 1) + JitterMaxMs

(***************************************************************************)
(* The number of loop threads of one DataAggregator                        *)
(* (src/services/background_services.py:15-42)                             *)
(***************************************************************************)

\* The loop threads that are inside a cycle: in _collect_facility_metrics
\* or _check_for_alerts.
InCycle == {t \in 1..Len(agg.threads) : agg.threads[t].pc = "cycle"}

\* C36: whatever the sequence of start() and stop() calls, at most one loop
\* thread is executing a cycle at any time.
C36_SingleLoopThread == Cardinality(InCycle) <= 1

(***************************************************************************)
(* How retry_db_operation finishes (src/database/logic.py:22-37)           *)
(***************************************************************************)

\* C37: for every max_retries, 0 included, a finished call has invoked the
\* operation at least once and has either returned the operation's result
\* or raised the operation's error: it has not returned without a success.
C37_FinishesWithResultOrError ==
    retry.pc = "done" =>
        /\ retry.calls >= 1
        /\ \/ /\ retry.outcome = "returned"
              /\ retry.operation_func[retry.calls] = "ok"
           \/ /\ retry.operation_func[retry.calls] # "ok"
              /\ retry.outcome = "raised_" \o retry.operation_func[retry.calls]

\* What the code keeps of it: the same, for max_retries of at least 1.
FinishesWithResultOrErrorIfPositive ==
    (retry.pc = "done" /\ retry.max_retries >= 1) =>
        /\ retry.calls >= 1
        /\ \/ /\ retry.outcome = "returned"
              /\ retry.operation_func[retry.calls] = "ok"
           \/ /\ retry.operation_func[retry.calls] # "ok"
              /\ retry.outcome = "raised_" \o retry.operation_func[retry.calls]

(***************************************************************************)
(* How often one cycle persists a sample                                   *)
(* (src/services/background_services.py:58-86,                             *)
(*  src/database/logic.py:83-96)                                           *)
(***************************************************************************)

\* The number of rows of facility_metrics the run has persisted for a sample.
TimesPersisted(rows, sample) ==
    Cardinality({k \in 1..Len(rows) : rows[k] = sample})

\* The samples of a batch.
SamplesOf(batch) == {batch[k] : k \in 1..Len(batch)}

\* C38: within one run of _collect_facility_metrics every sample of the
\* batch is persisted at most once; the batch transaction and the individual
\* inserts never both write (after a committed batch no individual insert is
\* made, and individual inserts start from no row of the batch); a committed
\* batch has persisted every sample exactly once, and an individual insert
\* that succeeds persists its sample exactly once.
C38_EachSamplePersistedAtMostOnce ==
    /\ [](\A sample \in SamplesOf(collect.metrics_batch) :
            /\ TimesPersisted(collect.persisted, sample) <= 1
            /\ collect.batch_ok =>
                  /\ TimesPersisted(collect.persisted, sample) = 1
                  /\ collect.inserts = <<>>
            /\ (collect.pc = "fallback" /\ collect.i = 1) => collect.persisted = <<>>)
    /\ [][ collect.pc = "fallback" =>
              LET sample == collect.metrics_batch[collect.i] IN
              \/ collect'.persisted = collect.persisted
              \/ /\ collect'.persisted = Append(collect.persisted, sample)
                 /\ TimesPersisted(collect'.persisted, sample) = 1 ]_vars

\* A batch of three samples failed at its second statement; the individual
\* inserts then persisted the first and the third sample, once each, and
\* the second one failed again.
C38_Witness ==
    /\ collect.pc = "done"
    /\ collect.metrics_batch = <<1, 2, 3>>
    /\ ~collect.batch_ok
    /\ collect.batch_runs >= 1
    /\ collect.inserts = <<1, 2, 3>>
    /\ collect.persisted = <<1, 3>>

(***************************************************************************)
(* The two equipment alerts of one facility                                *)
(* (src/services/background_services.py:120-152)                           *)
(***************************************************************************)

\* C39: no facility has an unresolved equipment_down alert and an unresolved
\* equipment_maintenance alert at the same time.
C39_EquipmentAlertsExclusive ==
    \A f \in Facilities :
        ~( /\ Unresolved(alerts, f, "equipment_down") # {}
           /\ Unresolved(alerts, f, "equipment_maintenance") # {} )

(***************************************************************************)
(* A facility that has no facility_metrics row yet                         *)
(* (src/database/sql_queries.py:73-88,                                     *)
(*  src/services/background_services.py:103-152, 191-240)                  *)
(***************************************************************************)

\* C40: for a facility whose joined read has NULL metric columns, every row
\* a step adds for it is a high_capacity alert, and none of its unresolved
\* alerts is resolved other than by POST /resolve_alert: the passes of
\* _check_for_alerts and sync_alerts_with_current_data, disturbed or not,
\* open no low_productivity, equipment_down or equipment_maintenance alert
\* for it and resolve none of its alerts.
C40_NoMetricsRowOnlyCapacity ==
    [][ \A f \in Facilities :
            ~metrics[f].has_row =>
                /\ \A j \in (Len(alerts) + 1)..Len(alerts') :
                      alerts'[j].facility_id = f =>
                          /\ alerts'[j].alert_type = "high_capacity"
                          /\ hist' # "sync_ok"
                /\ \A i \in 1..Len(alerts) :
                      (alerts[i].facility_id = f /\ alerts'[i].resolved # alerts[i].resolved) =>
                          alerts' = resolve_alert(alerts, i) ]_vars

\* Facility 2 has no metrics row and is above 90% of its capacity; facility
\* 1 reports Down. The pass has opened high_capacity for facility 2 and
\* equipment_down for facility 1, and nothing else.
C40_Witness ==
    /\ hist = "check_ok"
    /\ ~metrics[2].has_row
    /\ metrics[1].equipment_status = "Down"
    /\ Len(alerts) = 2
    /\ Cardinality(Unresolved(alerts, 2, "high_capacity")) = 1
    /\ Cardinality(Unresolved(alerts, 1, "equipment_down")) = 1

====
